---------------------------- MODULE Spec2Model ----------------------------
(***************************************************************************)
(* A model of the job-posting extraction core of job-tracker-web:          *)
(*   - core/salary.py          normalize_salary                            *)
(*   - app/parsers/__init__.py detect_parser, process_job_url,             *)
(*                             parse_handshake_text_wrapper                *)
(*   - app/parsers/*.py        the structured and the free-text extractors *)
(*                                                                         *)
(* Python strings are modelled as sequences of one-character strings, so   *)
(* that lower(), strip(), `in` and the regular expressions are computed    *)
(* character by character as the interpreter computes them.                *)
(***************************************************************************)
EXTENDS Integers, Sequences, FiniteSets, TLC

VARIABLES
    op,          \* the operation the current call is an invocation of
    pc,          \* "ready": inputs chosen, call not made; then "done" (or "again")
    salary_in,   \* normalize_salary: the argument s
    url,         \* detect_parser / process_job_url / wrapper: the job URL
    text,        \* parse_handshake_text_wrapper: the pasted text
    net,         \* what the fetch collaborator answers for url
    ret,         \* the value the call returned (a string or a record)
    ret2,        \* normalize_salary applied to its own result
    exc,         \* "" or the name of the exception that left the call
    job_data,    \* the dict the extractor handed to the entry point
    fetch_calls, \* number of requests.get calls made by the call
    parse_calls, \* number of parser.parse calls made by the call
    sheet,       \* the rows of the worksheet, the header first
    today,       \* the day date.today() gives, counted from 2025-06-01
    link,        \* find_job_by_link: the argument link
    sheet_reads, \* number of ws.get_all_values calls made by the call
    calls,       \* the extraction calls running side by side, one per thread
    sys_path,    \* sys.path of the interpreter
    trash,       \* the worksheet titled "Trash" of the spreadsheet
    requests,    \* the add_job requests being served, one per worker
    session      \* the Flask session the browser sends with its next request

sheet_vars == <<sheet, today, link, sheet_reads>>

thread_vars == <<calls, sys_path>>

web_vars == <<trash, requests, session>>

vars == <<op, pc, salary_in, url, text, net, ret, ret2, exc, job_data,
          fetch_calls, parse_calls, sheet_vars, thread_vars, web_vars>>

(***************************************************************************)
(* Characters and the str methods the code uses.                           *)
(***************************************************************************)
S(str) == [i \in 1..Len(str) |-> SubSeq(str, i, i)]

\* U+2013 EN DASH, which the TLA+ tools cannot read inside a string literal.
EnDash == "U+2013"

UpperSeq == S("ABCDEFGHIJKLMNOPQRSTUVWXYZ")
LowerSeq == S("abcdefghijklmnopqrstuvwxyz")
DigitSeq == S("0123456789")
UpperSet == {UpperSeq[i] : i \in DOMAIN UpperSeq}
LowerSet == {LowerSeq[i] : i \in DOMAIN LowerSeq}
DigitSet == {DigitSeq[i] : i \in DOMAIN DigitSeq}
WhitespaceSet == {" ", "\t", "\n", "\r"}
WordSet == UpperSet \cup LowerSet \cup DigitSet \cup {"_"}
LowerMap == [c \in UpperSet |-> LowerSeq[CHOOSE i \in DOMAIN UpperSeq : UpperSeq[i] = c]]
DigitVal == [c \in DigitSet |-> (CHOOSE i \in DOMAIN DigitSeq : DigitSeq[i] = c) - 1]

Min(set) == CHOOSE x \in set : \A y \in set : x <= y
Max(set) == CHOOSE x \in set : \A y \in set : x >= y

\* s[p], or "" (no character) outside the string
At(s, p) == IF p >= 1 /\ p <= Len(s) THEN s[p] ELSE ""

\* str.lower()
Lower(s) == [i \in DOMAIN s |-> IF s[i] \in UpperSet THEN LowerMap[s[i]] ELSE s[i]]

\* str.strip()
Strip(s) ==
    LET keep == {i \in DOMAIN s : s[i] \notin WhitespaceSet}
    IN  IF keep = {} THEN <<>> ELSE SubSeq(s, Min(keep), Max(keep))

\* sub in s
Contains(s, sub) ==
    \E i \in 0..(Len(s) - Len(sub)) : SubSeq(s, i + 1, i + Len(sub)) = sub

\* s.startswith(sub), s.endswith(sub)
StartsWith(s, sub) == Len(sub) <= Len(s) /\ SubSeq(s, 1, Len(sub)) = sub
EndsWith(s, sub) == Len(sub) <= Len(s) /\ SubSeq(s, Len(s) - Len(sub) + 1, Len(s)) = sub

\* any(x in s for x in list)
ContainsAny(s, list) == \E k \in DOMAIN list : Contains(s, list[k])

\* the first position >= p whose character is outside set (Len(s)+1 if none):
\* where a greedy run of a character class that starts at p ends
RunEnd(s, p, set) ==
    LET stop == {q \in p..Len(s) : s[q] \notin set}
    IN  IF stop = {} THEN Len(s) + 1 ELSE Min(stop)

RECURSIVE Concat(_)
Concat(parts) == IF parts = <<>> THEN <<>> ELSE Head(parts) \o Concat(Tail(parts))

(***************************************************************************)
(* core/salary.py                                                          *)
(***************************************************************************)
HOURS_PER_YEAR == 2080
MONTHS_PER_YEAR == 12

SALARY_MANUAL_KEYWORDS ==
    {S("negotiable"), S("tbd"), S("tba"), S("n/a"), S("not specified"),
     S("unspecified"), S("market"), S("dependent"), S("undisclosed"),
     S("competitive")}

HOURLY_MARKERS == <<S("/hr"), S("/hour"), S("per hour"), S("an hour"), S("hourly"), S(" hr")>>
YEARLY_MARKERS == <<S("/yr"), S("/year"), S("per year"), S("a year"), S("yearly"), S(" yr")>>
MONTHLY_MARKERS == <<S("/mo"), S("/month"), S("per month"), S("a month"), S("monthly"), S(" mo")>>

(* Numbers.  A float is kept as the exact rational n / (d * 10^sc), n a     *)
(* sequence of decimal digits (most significant first), so that no product *)
(* overflows; rounding happens where the code rounds, in fmt_money.        *)
RECURSIVE IntToDigits(_)
IntToDigits(k) == IF k = 0 THEN <<>> ELSE Append(IntToDigits(k \div 10), k % 10)

RECURSIVE DigitsToInt(_)
DigitsToInt(ds) ==
    IF ds = <<>> THEN 0 ELSE 10 * DigitsToInt(SubSeq(ds, 1, Len(ds) - 1)) + ds[Len(ds)]

Zeros(k) == [i \in 1..k |-> 0]

StripZeros(ds) ==
    LET nz == {i \in DOMAIN ds : ds[i] # 0}
    IN  IF nz = {} THEN <<>> ELSE SubSeq(ds, Min(nz), Len(ds))

RECURSIVE MulCarry(_, _, _)
MulCarry(ds, k, carry) ==
    IF ds = <<>> THEN IntToDigits(carry)
    ELSE LET t == ds[Len(ds)] * k + carry
         IN  Append(MulCarry(SubSeq(ds, 1, Len(ds) - 1), k, t \div 10), t % 10)

BigMul(ds, k) == StripZeros(MulCarry(ds, k, 0))

\* long division of a digit sequence by a small divisor: quotient and remainder
RECURSIVE DivStep(_, _, _, _)
DivStep(ds, k, rem, acc) ==
    IF ds = <<>> THEN [q |-> acc, r |-> rem]
    ELSE LET t == rem * 10 + Head(ds)
         IN  DivStep(Tail(ds), k, t % k, Append(acc, t \div k))

BigDiv(ds, k) == DivStep(ds, k, 0, <<>>)

RECURSIVE BigInc(_)
BigInc(ds) ==
    IF ds = <<>> THEN <<1>>
    ELSE IF ds[Len(ds)] < 9 THEN [ds EXCEPT ![Len(ds)] = @ + 1]
    ELSE Append(BigInc(SubSeq(ds, 1, Len(ds) - 1)), 0)

\* float(num_str.replace(",", "")): the digits around the point; float("")
\* raises ValueError, which is ok = FALSE here
ParseFloat(num_str) ==
    LET nocomma == SelectSeq(num_str, LAMBDA c : c # ",")
        dots == {i \in DOMAIN nocomma : nocomma[i] = "."}
        dot == IF dots = {} THEN Len(nocomma) + 1 ELSE Min(dots)
        ip == SubSeq(nocomma, 1, dot - 1)
        fp == SubSeq(nocomma, dot + 1, Len(nocomma))
    IN  [ok |-> nocomma # <<>>,
         n |-> StripZeros([i \in 1..(Len(ip) + Len(fp)) |->
                              DigitVal[IF i <= Len(ip) THEN ip[i] ELSE fp[i - Len(ip)]]]),
         sc |-> Len(fp),
         d |-> 1]

\* x < 1000, for a parsed number: its integer part has at most three digits
LessThan1000(x) == Len(x.n) - x.sc <= 3

\* x * 1000
Times1000(x) ==
    IF x.sc >= 3 THEN [x EXCEPT !.sc = @ - 3]
    ELSE [x EXCEPT !.n = StripZeros(@ \o Zeros(3 - x.sc)), !.sc = 0]

\* x * k and x / k for the two constants
Times(x, k) == [x EXCEPT !.n = BigMul(@, k)]
DivideBy(x, k) == [x EXCEPT !.d = @ * k]

(* fmt_money: f"${x:,.0f}" and f"${x:,.2f}".  The format rounds the double  *)
(* to the nearest value with p decimals.  RoundParts gives the digits of   *)
(* floor(x * 10^p) and how the remainder compares with one half.           *)
\* q: the digits of floor(n * 10^p / d), r: the remainder of that division
HalfCompare(x, q, r) ==
    LET hi == StripZeros(SubSeq(q, 1, Len(q) - x.sc))
        lo == SubSeq(q, Len(q) - x.sc + 1, Len(q))
        restNonZero == r > 0 \/ \E i \in 2..Len(lo) : lo[i] # 0
    IN  [hi |-> hi,
         cmp |-> IF x.sc = 0
                 THEN (IF 2 * r > x.d THEN "up"
                       ELSE IF 2 * r = x.d /\ r > 0 THEN "tie" ELSE "down")
                 ELSE (IF lo[1] > 5 \/ (lo[1] = 5 /\ restNonZero) THEN "up"
                       ELSE IF lo[1] = 5 THEN "tie" ELSE "down")]

Quotient(x, dv) == HalfCompare(x, Zeros(x.sc) \o dv.q, dv.r)

RoundParts(x, p) == Quotient(x, BigDiv(x.n \o Zeros(p), x.d))

Pow2Mod25 == <<1, 2, 4, 8, 16, 7, 14, 3, 6, 12, 24, 23, 21, 17, 9, 18, 11, 22, 19, 13>>

\* floor(log2(n / 200)) for an integer n >= 1
RECURSIVE Log2Over200(_, _, _)
Log2Over200(n, den, l) ==
    IF n < den THEN Log2Over200(2 * n, den, l - 1)
    ELSE IF n >= 2 * den THEN Log2Over200(n, 2 * den, l + 1)
    ELSE l

(* An exact decimal tie.  With no decimals the tie h + 1/2 is a binary     *)
(* fraction, the double holds it exactly and the format rounds half to     *)
(* even.  With two decimals the tie is n/200, n = 2h + 1: when 25 divides  *)
(* n it is a binary fraction again; otherwise the double nearest to n/200  *)
(* (53-bit significand m, n/200 = m / 2^e) lies above the tie exactly when *)
(* the remainder of n * 2^(e-3) modulo 25 exceeds 12, and the format       *)
(* rounds the way the double lies.                                         *)
TieRoundsUp(hi, p) ==
    LET last2 == DigitsToInt(SubSeq(Zeros(2) \o hi, Len(hi) + 1, Len(hi) + 2))
        odd == last2 % 2 = 1
        n25 == (2 * last2 + 1) % 25
    IN  IF p = 0 \/ n25 = 0 THEN odd
        ELSE LET l == Log2Over200(2 * DigitsToInt(hi) + 1, 200, 0)
                 rem == (n25 * Pow2Mod25[((49 - l) % 20) + 1]) % 25
             IN  rem > 12

Rounded(r, p) ==
    IF r.cmp = "up" \/ (r.cmp = "tie" /\ TieRoundsUp(r.hi, p))
    THEN BigInc(r.hi) ELSE r.hi

RoundTo(x, p) == Rounded(RoundParts(x, p), p)

\* the "," grouping of the format: digits in threes from the right
Commas(ds) ==
    LET n == Len(ds)
    IN  Concat([i \in 1..n |->
            IF i > 1 /\ (n - i + 1) % 3 = 0
            THEN <<",", DigitSeq[ds[i] + 1]>> ELSE <<DigitSeq[ds[i] + 1]>>])

\* "$" and the digits r of the rounded amount, r counting units (decimals = 0)
\* or hundredths (decimals = 2)
FormatRounded(r, decimals) ==
    IF decimals = 0
    THEN <<"$">> \o Commas(IF r = <<>> THEN <<0>> ELSE r)
    ELSE LET padded == Zeros(3 - Len(r)) \o r
             n == Len(padded)
         IN  <<"$">> \o Commas(SubSeq(padded, 1, n - 2)) \o <<".">>
                 \o <<DigitSeq[padded[n - 1] + 1], DigitSeq[padded[n] + 1]>>

fmt_money(x, decimals) == FormatRounded(RoundTo(x, decimals), decimals)

(* The regular expressions of normalize_salary.  Every optional part sits  *)
(* in front of a character no other alternative accepts, so the greedy     *)
(* choice is the match Python's backtracking search returns.               *)
NumCharSet == DigitSet \cup {","}
DashSet == {"-", EnDash}
KSet == {"k", "K"}

\* ([\d,]+(?:\.\d+)?) at p
\* (?:\.\d+)? at e: where it ends
AfterOptFraction(s, e) ==
    IF At(s, e) = "." /\ At(s, e + 1) \in DigitSet THEN RunEnd(s, e + 1, DigitSet) ELSE e

AmountUpTo(s, p, e1, e2) == [ok |-> e1 > p, str |-> SubSeq(s, p, e2 - 1), end |-> e2]

AmountFrom(s, p, e1) == AmountUpTo(s, p, e1, AfterOptFraction(s, e1))

AmountAt(s, p) == AmountFrom(s, p, RunEnd(s, p, NumCharSet))

\* \s*(?:k|K)? at p (keep_ws) and (?:\s*k)? at p (~keep_ws), q being where the
\* white space at p ends: where the part ends
OptK(s, p, q, keep_ws) == IF At(s, q) \in KSet THEN q + 1 ELSE IF keep_ws THEN q ELSE p

AfterOptK(s, p, keep_ws) == OptK(s, p, RunEnd(s, p, WhitespaceSet), keep_ws)

\* \$\s*([\d,]+(?:\.\d+)?)\s*(?:k|K)?
\*     (?:\s*[-–]\s*\$?\s*([\d,]+(?:\.\d+)?)\s*(?:k|K)?)?   matched at p
NoMatch(p) == [ok |-> FALSE, g1 |-> <<>>, g2 |-> <<>>, end |-> p]

\* \$?\s*([\d,]+(?:\.\d+)?) at g
OptDollarAmountAt(s, g) ==
    AmountAt(s, RunEnd(s, IF At(s, g) = "$" THEN g + 1 ELSE g, WhitespaceSet))

\* [-–]\s*\$?\s*([\d,]+(?:\.\d+)?) at g, the dash included
DashAmountAt(s, g) ==
    IF At(s, g) \in DashSet THEN OptDollarAmountAt(s, RunEnd(s, g + 1, WhitespaceSet))
    ELSE [ok |-> FALSE, str |-> <<>>, end |-> g]

\* the first amount a1 is matched and its optional k ends at p3; a2 is the
\* range part tried after it
PrimaryGroups(s, a1, p3, a2, keep_ws) ==
    IF a2.ok
    THEN [ok |-> TRUE, g1 |-> a1.str, g2 |-> a2.str, end |-> AfterOptK(s, a2.end, keep_ws)]
    ELSE [ok |-> TRUE, g1 |-> a1.str, g2 |-> <<>>, end |-> p3]

PrimaryRange(s, a1, p3, keep_ws) ==
    PrimaryGroups(s, a1, p3, DashAmountAt(s, RunEnd(s, p3, WhitespaceSet)), keep_ws)

PrimaryAmount(s, p, a1, keep_ws) ==
    IF a1.ok THEN PrimaryRange(s, a1, AfterOptK(s, a1.end, keep_ws), keep_ws) ELSE NoMatch(p)

\* keep_ws tells the two spellings of the optional k apart: \s*(?:k|K)? in
\* core/salary.py and in parse_text, (?:\s*k)? in the three parse functions
PrimaryMatchAt(s, p, keep_ws) ==
    IF At(s, p) = "$"
    THEN PrimaryAmount(s, p, AmountAt(s, RunEnd(s, p + 1, WhitespaceSet)), keep_ws)
    ELSE NoMatch(p)

\* ([\d,]+)(?:\s*[-–]\s*([\d,]+))?\s*[kK]\b   matched at p
KAt(s, t) == [ok |-> At(s, t) \in KSet /\ At(s, t + 1) \notin WordSet, end |-> t + 1]

KTailAt(s, p) == KAt(s, RunEnd(s, p, WhitespaceSet))

FallbackMatchAt(s, p) ==
    LET e1 == RunEnd(s, p, NumCharSet)
        q0 == RunEnd(s, e1, WhitespaceSet)
        q1 == RunEnd(s, q0 + 1, WhitespaceSet)
        e2 == RunEnd(s, q1, NumCharSet)
        ranged == At(s, q0) \in DashSet /\ e2 > q1
        tail == KTailAt(s, IF ranged THEN e2 ELSE e1)
    IN  IF e1 > p /\ tail.ok
        THEN [ok |-> TRUE, g1 |-> SubSeq(s, p, e1 - 1),
              g2 |-> IF ranged THEN SubSeq(s, q1, e2 - 1) ELSE <<>>, end |-> tail.end]
        ELSE NoMatch(p)

\* re.findall: the non-overlapping matches from left to right
RECURSIVE FindAllPrimary(_, _)
FindAllPrimary(s, p) ==
    IF p > Len(s) THEN <<>>
    ELSE LET m == PrimaryMatchAt(s, p, TRUE)
         IN  IF m.ok THEN <<m>> \o FindAllPrimary(s, m.end) ELSE FindAllPrimary(s, p + 1)

RECURSIVE FindAllFallback(_, _)
FindAllFallback(s, p) ==
    IF p > Len(s) THEN <<>>
    ELSE LET m == FallbackMatchAt(s, p)
         IN  IF m.ok THEN <<m>> \o FindAllFallback(s, m.end) ELSE FindAllFallback(s, p + 1)

\* the capture groups of the matches, in order, the empty ones left out
NumStrings(matches) ==
    Concat([i \in DOMAIN matches |->
        IF matches[i].g2 = <<>> THEN <<matches[i].g1>> ELSE <<matches[i].g1, matches[i].g2>>])

\* "k" in s.lower() and num < 1000  =>  num *= 1000
KScaled(x, has_k) == IF has_k /\ LessThan1000(x) THEN Times1000(x) ELSE x

\* the values of the primary pattern (lines 57-65)
ValuesOf(strs, has_k) == [i \in DOMAIN strs |-> KScaled(ParseFloat(strs[i]), has_k)]

PrimaryValues(s, has_k) == ValuesOf(NumStrings(FindAllPrimary(s, 1)), has_k)

\* the values of the fallback pattern (lines 68-80); a float() that raises
\* ends the handling of that match, keeping what was appended before
FallbackPair(g2, v1, v2) ==
    IF ~v1.ok THEN <<>>
    ELSE IF g2 # <<>> /\ v2.ok THEN <<Times1000(v1), Times1000(v2)>>
    ELSE <<Times1000(v1)>>

FallbackOf(ms) ==
    Concat([i \in DOMAIN ms |->
        FallbackPair(ms[i].g2, ParseFloat(ms[i].g1), ParseFloat(ms[i].g2))])

FallbackValues(s) == FallbackOf(FindAllFallback(s, 1))

\* what a call hands back: a value, or an exception and nothing
Nothing == <<>>
Returned(v) == [exc |-> "", val |-> v]
Raised(e) == [exc |-> e, val |-> Nothing]

\* an exception that leaves the try with job_data as far as it was filled
RaisedWith(e, data) == [exc |-> e, val |-> data]

\* lines 89-133: the conversion of the values by unit
ConvertSalary(s, values, is_hourly, is_yearly, is_monthly) ==
    LET v1 == values[1]
        v2 == values[2]
        one == Len(values) = 1
        perYear(h) == Times(h, HOURS_PER_YEAR)
        perHour(y) == DivideBy(y, HOURS_PER_YEAR)
        monthsToYear(m) == Times(m, MONTHS_PER_YEAR)
    IN  IF is_hourly THEN
            IF one
            THEN fmt_money(v1, 2) \o S("/hr (~") \o fmt_money(perYear(v1), 0) \o S("/yr)")
            ELSE fmt_money(v1, 2) \o <<EnDash>> \o fmt_money(v2, 2) \o S("/hr (~")
                 \o fmt_money(perYear(v1), 0) \o <<EnDash>> \o fmt_money(perYear(v2), 0)
                 \o S("/yr)")
        ELSE IF is_yearly THEN
            IF one
            THEN fmt_money(v1, 0) \o S("/yr (~") \o fmt_money(perHour(v1), 2) \o S("/hr)")
            ELSE fmt_money(v1, 0) \o <<EnDash>> \o fmt_money(v2, 0) \o S("/yr (~")
                 \o fmt_money(perHour(v1), 2) \o <<EnDash>> \o fmt_money(perHour(v2), 2)
                 \o S("/hr)")
        ELSE IF is_monthly THEN
            IF one
            THEN fmt_money(v1, 0) \o S("/mo (~") \o fmt_money(monthsToYear(v1), 0)
                 \o S("/yr, ~") \o fmt_money(perHour(monthsToYear(v1)), 2) \o S("/hr)")
            ELSE fmt_money(v1, 0) \o <<EnDash>> \o fmt_money(v2, 0) \o S("/mo (~")
                 \o fmt_money(monthsToYear(v1), 0) \o <<EnDash>>
                 \o fmt_money(monthsToYear(v2), 0) \o S("/yr, ~")
                 \o fmt_money(perHour(monthsToYear(v1)), 2) \o <<EnDash>>
                 \o fmt_money(perHour(monthsToYear(v2)), 2) \o S("/hr)")
        ELSE s

\* lines 82-133 with the yearly branch tried before the hourly one
NormalizeYearlyFirst(s, values, is_hourly, is_yearly, is_monthly) ==
    IF values = <<>> THEN Returned(s)
    ELSE Returned(ConvertSalary(s, values, is_hourly /\ ~is_yearly, is_yearly, is_monthly))

\* lines 82-133: the values are extracted
NormalizeValues(s, values, is_hourly, is_yearly, is_monthly) ==
    IF values = <<>> THEN Returned(s)
    ELSE Returned(ConvertSalary(s, values, is_hourly, is_yearly, is_monthly))

\* lines 56-80: primary holds the values of the primary pattern, a value
\* that is not ok being the float() call that raises
NormalizeMatched(s, primary, is_hourly, is_yearly, is_monthly, has_k) ==
    IF \E i \in DOMAIN primary : ~primary[i].ok THEN Raised("ValueError")
    ELSE NormalizeValues(s,
             IF primary # <<>> THEN primary
             ELSE IF has_k /\ (is_hourly \/ is_yearly \/ is_monthly) THEN FallbackValues(s)
             ELSE <<>>,
             is_hourly, is_yearly, is_monthly)

\* lines 36-54: the markers are known
NormalizeMarked(s, lower, is_hourly, is_yearly, is_monthly, has_k) ==
    IF lower \in SALARY_MANUAL_KEYWORDS THEN Returned(s)
    ELSE IF ~(Contains(s, S("$")) \/ has_k) /\ ~(is_hourly \/ is_yearly \/ is_monthly)
    THEN Returned(s)
    ELSE NormalizeMatched(s, PrimaryValues(s, has_k), is_hourly, is_yearly, is_monthly, has_k)

\* lines 33-45
NormalizeStripped(s, lower) ==
    IF s = <<>> THEN Returned(<<>>)
    ELSE NormalizeMarked(s, lower,
             ContainsAny(lower, HOURLY_MARKERS), ContainsAny(lower, YEARLY_MARKERS),
             ContainsAny(lower, MONTHLY_MARKERS), Contains(lower, S("k")))

Lowered(s) == NormalizeStripped(s, Lower(s))

normalize_salary(raw) == Lowered(Strip(raw))

(***************************************************************************)
(* The calls of normalize_salary: on a salary string put together from at  *)
(* most MaxSalaryParts fragments, and again on its own result (add_job     *)
(* normalizes whatever the review form sends back, routes.py line 204).    *)
(***************************************************************************)
MaxSalaryParts == 3

SalaryFragments ==
    {S("$23"), S("$5000"), S("$120,000"), S("$52"), S("$70k"), S("70k"), S("$,"),
     S(" - $30"), <<EnDash>> \o S("90"), S(".5"), S("k"), S(" "),
     S("/hr"), S("/yr"), S("/mo"), S(" per hour"), S("TBD"), S("negotiable")}

SalaryInputs ==
    {Concat(parts) : parts \in UNION {[1..n -> SalaryFragments] : n \in 0..MaxSalaryParts}}

NoPage ==
    [parsable |-> FALSE, og_title |-> <<>>, site_name |-> <<>>, h1 |-> <<>>,
     paragraphs |-> <<>>, raises |-> {}]

\* no request made
NoAnswer == [status |-> "none", page |-> NoPage]

\* no worksheet opened, no thread started
NoSheet == sheet = <<>> /\ today = 1 /\ link = <<>> /\ sheet_reads = 0

NoThreads == calls = <<>> /\ sys_path = <<>>

\* a spreadsheet without a worksheet titled "Trash"
NoTrash == [exists |-> FALSE, rows |-> <<>>]

NoWeb == trash = NoTrash /\ requests = <<>> /\ session = <<>>

Idle ==
    /\ url = <<>> /\ text = <<>> /\ net = NoAnswer /\ job_data = Nothing
    /\ fetch_calls = 0 /\ parse_calls = 0
    /\ NoSheet /\ NoThreads /\ NoWeb

InitSalary ==
    /\ op = "normalize_salary" /\ pc = "ready"
    /\ salary_in \in SalaryInputs
    /\ ret = <<>> /\ ret2 = <<>> /\ exc = ""
    /\ Idle

Normalize ==
    /\ op = "normalize_salary" /\ pc = "ready"
    /\ LET r == normalize_salary(salary_in)
       IN  ret' = r.val /\ exc' = r.exc
    /\ pc' = "done"
    /\ UNCHANGED <<op, salary_in, url, text, net, ret2, job_data, fetch_calls, parse_calls>>
    /\ UNCHANGED <<sheet_vars, thread_vars, web_vars>>

NormalizeAgain ==
    /\ op = "normalize_salary" /\ pc = "done" /\ exc = ""
    /\ LET r == normalize_salary(ret)
       IN  ret2' = r.val /\ exc' = r.exc
    /\ pc' = "again"
    /\ UNCHANGED <<op, salary_in, url, text, net, ret, job_data, fetch_calls, parse_calls>>
    /\ UNCHANGED <<sheet_vars, thread_vars, web_vars>>

NextSalary == Normalize \/ NormalizeAgain

SpecSalary == InitSalary /\ [][NextSalary]_vars

(***************************************************************************)
(* The pattern library of app/parsers: the str methods and the regular     *)
(* expressions the extractors share.                                       *)
(***************************************************************************)
UpperMap == [c \in LowerSet |-> UpperSeq[CHOOSE i \in DOMAIN LowerSeq : LowerSeq[i] = c]]

\* str.capitalize()
Capitalize(s) ==
    [i \in DOMAIN s |->
        IF i = 1 THEN (IF s[i] \in LowerSet THEN UpperMap[s[i]] ELSE s[i])
        ELSE (IF s[i] \in UpperSet THEN LowerMap[s[i]] ELSE s[i])]

\* str.isdigit() and str.isupper()
IsDigit(s) == s # <<>> /\ \A i \in DOMAIN s : s[i] \in DigitSet
IsUpper(s) == (\E i \in DOMAIN s : s[i] \in UpperSet) /\ \A i \in DOMAIN s : s[i] \notin LowerSet

\* s.find(sub) + 1: the first position where sub occurs in s, 0 when none
Find(s, sub) ==
    LET at == {i \in 1..(Len(s) - Len(sub) + 1) : SubSeq(s, i, i + Len(sub) - 1) = sub}
    IN  IF at = {} THEN 0 ELSE Min(at)

\* s.split(sep)[0] and s.split(sep, 1)[1], the latter where sep occurs in s
Before(s, sep) == IF Find(s, sep) = 0 THEN s ELSE SubSeq(s, 1, Find(s, sep) - 1)
After(s, sep) == SubSeq(s, Find(s, sep) + Len(sep), Len(s))

\* s.split(c) for a character c
RECURSIVE Split(_, _)
Split(s, c) ==
    LET at == {i \in DOMAIN s : s[i] = c}
    IN  IF at = {} THEN <<s>>
        ELSE <<SubSeq(s, 1, Min(at) - 1)>> \o Split(SubSeq(s, Min(at) + 1, Len(s)), c)

\* sep.join(parts)
RECURSIVE Join(_, _)
Join(parts, sep) ==
    IF parts = <<>> THEN <<>>
    ELSE IF Len(parts) = 1 THEN parts[1]
    ELSE parts[1] \o sep \o Join(Tail(parts), sep)

\* dict.get(k, default) on a dict kept as a function
Get(d, k, default) == IF k \in DOMAIN d THEN d[k] ELSE default

\* d[k] = v
Put(d, k, v) == [x \in DOMAIN d \cup {k} |-> IF x = k THEN v ELSE d[x]]

(* [A-Z][a-z]+(?:\s+[A-Z][a-z]+)*,\s*[A-Z]{2}: each repetition is greedy and *)
(* giving characters back never helps, the character that follows a word   *)
(* being white space or the comma.                                         *)
\* [A-Z][a-z]+ at p: where it ends, p when it does not match
CapWordEnd(s, p) ==
    IF At(s, p) \in UpperSet /\ At(s, p + 1) \in LowerSet THEN RunEnd(s, p + 1, LowerSet) ELSE p

\* (?:\s+[A-Z][a-z]+)* at p: where it ends
RECURSIVE MoreCapWords(_, _)
MoreCapWords(s, p) ==
    LET w == RunEnd(s, p, WhitespaceSet)
    IN  IF w > p /\ CapWordEnd(s, w) > w THEN MoreCapWords(s, CapWordEnd(s, w)) ELSE p

\* ,\s*[A-Z]{2} at c: where it ends, 0 when it does not match
StateEnd(s, c, st) ==
    IF At(s, c) = "," /\ At(s, st) \in UpperSet /\ At(s, st + 1) \in UpperSet THEN st + 2 ELSE 0

CommaState(s, c) == StateEnd(s, c, RunEnd(s, c + 1, WhitespaceSet))

\* the whole pattern at p: where it ends, 0 when it does not match
CityStateAt(s, p) ==
    IF CapWordEnd(s, p) > p THEN CommaState(s, MoreCapWords(s, CapWordEnd(s, p))) ELSE 0

\* re.search(pattern, s): group 1 of the leftmost match, "" for no match
FirstCityState(s, at) ==
    IF at = {} THEN <<>> ELSE SubSeq(s, Min(at), CityStateAt(s, Min(at)) - 1)

CitySearch(s) == FirstCityState(s, {p \in DOMAIN s : CityStateAt(s, p) > 0})

\* re.match(city_state_pattern, line), the pattern anchored with ^ and $
CityStateLine(line) == CityStateAt(line, 1) = Len(line) + 1

(* The salary patterns of the extractors (IGNORECASE): the amounts of the   *)
(* primary pattern of core/salary.py, then white space and a time marker,  *)
(* which parse_text demands and the parse functions take when it is there. *)
TIME_MARKERS ==
    <<S("/yr"), S("/year"), S("per year"), S("yr"), S("/mo"), S("/month"), S("per month"),
      S("month"), S("mo"), S("/hr"), S("/hour"), S("per hour"), S("hr")>>

PAGE_MARKERS == <<S("/hr"), S("/hour"), S("per hour"), S("/yr"), S("/year"), S("per year")>>

\* the alternatives that match the lower-cased subject l at p, a word
\* boundary behind them when bounded
MarkersAt(l, p, markers, bounded) ==
    {k \in DOMAIN markers :
        /\ p + Len(markers[k]) <= Len(l) + 1
        /\ SubSeq(l, p, p + Len(markers[k]) - 1) = markers[k]
        /\ (bounded => At(l, p + Len(markers[k])) \notin WordSet)}

\* the first alternative that matches: where it ends, 0 when none does
FirstMarker(p, markers, hit) == IF hit = {} THEN 0 ELSE p + Len(markers[Min(hit)])

MarkerEnd(l, p, markers, bounded) == FirstMarker(p, markers, MarkersAt(l, p, markers, bounded))

\* the amounts end at e; m is where the marker behind them ends
SalaryEnd(e, m, mandatory) == IF m > 0 THEN m ELSE IF mandatory THEN 0 ELSE e

SalaryTail(s, m, style) ==
    IF m.ok
    THEN SalaryEnd(m.end,
             MarkerEnd(Lower(s), RunEnd(s, m.end, WhitespaceSet), style.markers, style.bounded),
             style.mandatory)
    ELSE 0

\* the whole pattern at p: where it ends, 0 when it does not match
SalaryAt(s, p, style) == SalaryTail(s, PrimaryMatchAt(s, p, style.keep_ws), style)

FirstSalary(s, at, style) ==
    IF at = {} THEN <<>> ELSE Strip(SubSeq(s, Min(at), SalaryAt(s, Min(at), style) - 1))

\* re.search(pattern, s, re.IGNORECASE).group(0).strip(), "" for no match
SalarySearch(s, style) == FirstSalary(s, {p \in DOMAIN s : SalaryAt(s, p, style) > 0}, style)

TextSalary == [keep_ws |-> TRUE, markers |-> TIME_MARKERS, bounded |-> TRUE, mandatory |-> TRUE]
HandshakeSalary == [keep_ws |-> FALSE, markers |-> TIME_MARKERS, bounded |-> TRUE, mandatory |-> FALSE]
PageSalary == [keep_ws |-> FALSE, markers |-> PAGE_MARKERS, bounded |-> FALSE, mandatory |-> FALSE]

\* the two keywords looked for in the other order
RemoteHybridFirst(lower, other) ==
    IF Contains(lower, S("hybrid")) THEN S("Hybrid")
    ELSE IF Contains(lower, S("remote")) THEN S("Remote")
    ELSE other

\* "remote" / "hybrid" in the lower-cased text; other is "On-site" in the
\* parse functions and "" in parse_text
RemoteOf(lower, other) ==
    IF Contains(lower, S("remote")) THEN S("Remote")
    ELSE IF Contains(lower, S("hybrid")) THEN S("Hybrid")
    ELSE other

\* the job type given as the keyword found
JobTypeAsWritten(lower) ==
    IF Contains(lower, S("internship")) THEN S("internship")
    ELSE IF Contains(lower, S("full-time")) \/ Contains(lower, S("full time"))
    THEN S("full time")
    ELSE <<>>

\* the job type keywords with full-time looked for before internship
JobTypeFullTimeFirst(lower) ==
    IF Contains(lower, S("full-time")) \/ Contains(lower, S("full time"))
    THEN S("Full-time")
    ELSE IF Contains(lower, S("internship")) \/ Contains(lower, S("intern position"))
    THEN S("Internship")
    ELSE IF Contains(lower, S("part-time")) \/ Contains(lower, S("part time"))
    THEN S("Part-time")
    ELSE IF Contains(lower, S("contract")) THEN S("Contract")
    ELSE <<>>

\* the job type keywords in the lower-cased text
JobTypeOf(lower) ==
    IF Contains(lower, S("internship")) \/ Contains(lower, S("intern position"))
    THEN S("Internship")
    ELSE IF Contains(lower, S("full-time")) \/ Contains(lower, S("full time"))
    THEN S("Full-time")
    ELSE IF Contains(lower, S("part-time")) \/ Contains(lower, S("part time"))
    THEN S("Part-time")
    ELSE IF Contains(lower, S("contract")) THEN S("Contract")
    ELSE <<>>

(***************************************************************************)
(* app/parsers/handshake.py: parse_text, the extractor for pasted text     *)
(***************************************************************************)
NOISE_WORDS ==
    {S("menu"), S("navigation"), S("home"), S("jobs"), S("sign in"), S("log in"),
     S("search"), S("get the app"), S("save"), S("share"), S("apply"), S("follow")}

\* ^\d+\s+profile\s+views?$ on l, d and w being where the digits and the
\* white space behind them end
ProfileTail(l, w, v) ==
    /\ w + 7 <= Len(l) + 1 /\ SubSeq(l, w, w + 6) = S("profile")
    /\ v > w + 7
    /\ SubSeq(l, v, Len(l)) \in {S("view"), S("views")}

ProfileWords(l, d, w) == d > 1 /\ w > d /\ ProfileTail(l, w, RunEnd(l, w + 7, WhitespaceSet))

ProfileViews(l) ==
    ProfileWords(l, RunEnd(l, 1, DigitSet), RunEnd(l, RunEnd(l, 1, DigitSet), WhitespaceSet))

\* re.match(r'in the past \d+ days?$', l): d is where the digits end
PastDaysTail(l, d) == d > 13 /\ SubSeq(l, d, Len(l)) \in {S(" day"), S(" days")}

PastDays(l) == StartsWith(l, S("in the past ")) /\ PastDaysTail(l, RunEnd(l, 13, DigitSet))

\* any(re.match(pattern, l, re.IGNORECASE) for pattern in noise_patterns)
NoisePattern(l) ==
    \/ ProfileViews(l)
    \/ StartsWith(l, S("skip to"))
    \/ l \in NOISE_WORDS
    \/ PastDays(l)
    \/ StartsWith(l, S("posted"))
    \/ StartsWith(l, S("apply by"))
    \/ (Len(l) >= 3 /\ \A i \in DOMAIN l : l[i] = "=")

NoiseLower(l) ==
    \/ IsDigit(l)
    \/ Contains(l, S(" logo")) \/ EndsWith(l, S("logo"))
    \/ NoisePattern(l)

is_noise(line) == Strip(line) = <<>> \/ NoiseLower(Strip(Lower(line)))

LABELS ==
    {S("position"), S("company"), S("location"), S("salary"), S("jobtype"), S("job type"),
     S("employment type")}

JOB_TYPE_LABELS == {S("jobtype"), S("job type"), S("employment type")}

\* lines 151-153: the stripped non-empty lines of the text
Stripped(raw) == SelectSeq([i \in DOMAIN raw |-> Strip(raw[i])], LAMBDA l : l # <<>>)

NonEmptyLines(t) == Stripped(Split(t, "\n"))

\* lines 190-199: the label -> value map, scanned from line i on
RECURSIVE LabelsFrom(_, _, _)
LabelsFrom(lines, i, map) ==
    IF i > Len(lines) THEN map
    ELSE IF Lower(Strip(lines[i])) \in LABELS
    THEN LabelsFrom(lines, i + 2,
             Put(map, Lower(Strip(lines[i])),
                 IF i + 1 <= Len(lines) THEN Strip(lines[i + 1]) ELSE <<>>))
    ELSE LabelsFrom(lines, i + 1, map)

\* m.group(1) if m else loc_val
CityOr(m, loc_val) == IF m # <<>> THEN m ELSE loc_val

\* a or b or c
FirstTruthy(a, b, c) == IF a # <<>> THEN a ELSE IF b # <<>> THEN b ELSE c

\* lines 201-219: the fields assigned from the labels
FromLabels(map) ==
    [position |-> Get(map, S("position"), <<>>),
     company |-> Get(map, S("company"), <<>>),
     location |-> CityOr(CitySearch(Get(map, S("location"), <<>>)),
                         Get(map, S("location"), <<>>)),
     salary |-> Get(map, S("salary"), <<>>),
     job_type |-> FirstTruthy(Get(map, S("jobtype"), <<>>), Get(map, S("job type"), <<>>),
                              Get(map, S("employment type"), <<>>)),
     remote_hint |-> <<>>]

\* lines 223-232: the first line holding "logo" (0 when none) and group 1 of
\* ^(.+?)\s+logo\s*$ on it, stripped; the lines carry no white space at
\* their ends, so the match takes "logo" from the end of the line, one
\* white space character before it, and what is left of that as the name
FirstOf(at) == IF at = {} THEN 0 ELSE Min(at)

LogoLine(lines) == FirstOf({i \in DOMAIN lines : Contains(Lower(lines[i]), S("logo"))})

LogoName(line) ==
    IF /\ Len(line) >= 6
       /\ EndsWith(Lower(line), S("logo"))
       /\ line[Len(line) - 4] \in WhitespaceSet
    THEN Strip(SubSeq(line, 1, Len(line) - 4)) ELSE <<>>

\* the name of the logo line taken when it is longer than 4 characters
LogoCompanyLong(st, logo, name) ==
    IF logo > 0 /\ st.company = <<>> /\ name # <<>> /\ ~is_noise(name) /\ Len(name) > 4
    THEN [st EXCEPT !.company = name] ELSE st

\* the name of the logo line taken whether or not a company is set
LogoCompanyAlways(st, logo, name) ==
    IF logo > 0 /\ name # <<>> /\ ~is_noise(name) /\ Len(name) > 2
    THEN [st EXCEPT !.company = name] ELSE st

LogoCompany(st, logo, name) ==
    IF logo > 0 /\ st.company = <<>> /\ name # <<>> /\ ~is_noise(name) /\ Len(name) > 2
    THEN [st EXCEPT !.company = name] ELSE st

AfterLogo(lines, st, logo) ==
    LogoCompany(st, logo, IF logo > 0 THEN LogoName(lines[logo]) ELSE <<>>)

\* re.search(r"\d+\s+days?\s+ago", l): the pattern at p, d and w being where
\* the digits and the white space behind them end
DaysAgoTail(l, e, a) == a > e /\ a + 3 <= Len(l) + 1 /\ SubSeq(l, a, a + 2) = S("ago")

DaysWord(l, w, e) ==
    /\ w + 3 <= Len(l) + 1 /\ SubSeq(l, w, w + 2) = S("day")
    /\ DaysAgoTail(l, e, RunEnd(l, e, WhitespaceSet))

DaysAgoWords(l, p, d, w) ==
    d > p /\ w > d /\ DaysWord(l, w, IF At(l, w + 3) = "s" THEN w + 4 ELSE w + 3)

DaysAgoAt(l, p, d) == DaysAgoWords(l, p, d, RunEnd(l, d, WhitespaceSet))

DaysAgo(l) == \E p \in DOMAIN l : DaysAgoAt(l, p, RunEnd(l, p, DigitSet))

\* line 244: the scan for the title ends at this line
EndsTitleScan(l) == StartsWith(l, S("posted")) \/ DaysAgo(l) \/ Contains(l, S("apply by"))

\* lines 247-252: the scan passes over this line
NotATitle(line, company) ==
    \/ (company # <<>> /\ Lower(line) = Lower(company))
    \/ is_noise(line) \/ Len(line) <= 3 \/ IsUpper(line) \/ CityStateLine(line)

\* lines 237-257: i is the first line at which the scan stops, 0 when it
\* runs to the end of its range
TitleAt(lines, st, i) ==
    IF i = 0 \/ st.position # <<>> THEN st
    ELSE IF EndsTitleScan(Lower(lines[i])) THEN st
    ELSE [st EXCEPT !.position = lines[i]]

AfterLogoTitle(lines, st, logo) ==
    IF logo = 0 THEN st
    ELSE TitleAt(lines, st,
             FirstOf({i \in (logo + 1)..Min({logo + 8, Len(lines)}) :
                         EndsTitleScan(Lower(lines[i])) \/ ~NotATitle(lines[i], st.company)}))

\* lines 280-290: the location for a "location" label at line i
RemainingCity(lines, i, m) ==
    IF m # <<>> THEN m ELSE IF i + 1 <= Len(lines) THEN Strip(lines[i + 1]) ELSE <<>>

LabelledLocation(lines, i) ==
    RemainingCity(lines, i, CitySearch(Join(SubSeq(lines, i + 1, Len(lines)), <<"\n">>)))

\* lines 261-310: one turn of the loop at line i, l being the lower-cased
\* line and next the stripped line behind it; the result is the fields and
\* the line the loop goes on with
ScanStep(lines, i, st, l, has_next, next) ==
    IF st.position = <<>> /\ l = S("position") /\ has_next
    THEN (IF ~is_noise(next) THEN [st |-> [st EXCEPT !.position = next], i |-> i + 2]
          ELSE [st |-> st, i |-> i + 1])
    ELSE IF st.company = <<>> /\ l = S("company") /\ has_next
    THEN (IF ~is_noise(next) THEN [st |-> [st EXCEPT !.company = next], i |-> i + 2]
          ELSE [st |-> st, i |-> i + 1])
    ELSE IF l = S("location")
    THEN [st |-> [st EXCEPT !.location = LabelledLocation(lines, i)], i |-> i + 2]
    ELSE IF l = S("salary") /\ has_next
    THEN [st |-> [st EXCEPT !.salary = next], i |-> i + 2]
    ELSE IF l \in JOB_TYPE_LABELS /\ has_next
    THEN [st |-> [st EXCEPT !.job_type = next], i |-> i + 2]
    ELSE IF l = S("remote") /\ has_next
    THEN [st |-> [st EXCEPT !.remote_hint = next], i |-> i + 2]
    ELSE [st |-> st, i |-> i + 1]

RECURSIVE LabelScan(_, _, _)
ScanOn(lines, step) == LabelScan(lines, step.i, step.st)

LabelScan(lines, i, st) ==
    IF i > Len(lines) \/ (st.position # <<>> /\ st.company # <<>>) THEN st
    ELSE ScanOn(lines, ScanStep(lines, i, st, Lower(lines[i]), i + 1 <= Len(lines),
                                IF i + 1 <= Len(lines) THEN Strip(lines[i + 1]) ELSE <<>>))

LABEL_WORDS == LABELS \cup {S("remote")}
SKIP_KEYWORDS == <<S("profile"), S("view"), S("follow")>>
TITLE_KEYWORDS ==
    <<S("engineer"), S("developer"), S("manager"), S("analyst"), S("scientist"),
      S("designer"), S("architect"), S("specialist")>>

\* ^(internship|full[-\s]?time|part[-\s]?time|contract)$
JobTypeWord(l) ==
    \/ l \in {S("internship"), S("contract"), S("fulltime"), S("parttime")}
    \/ /\ Len(l) = 9
       /\ SubSeq(l, 1, 4) \in {S("full"), S("part")}
       /\ l[5] \in WhitespaceSet \cup {"-"}
       /\ SubSeq(l, 6, 9) = S("time")

\* lines 319-326
MeaningfulLine(line) ==
    /\ ~is_noise(line)
    /\ Lower(line) \notin LABEL_WORDS
    /\ Len(line) > 5
    /\ ~ContainsAny(Lower(line), SKIP_KEYWORDS)
    /\ ~CityStateLine(line)
    /\ ~Contains(Lower(line), S("logo"))

\* lines 330-335
PreferredLine(line) == ContainsAny(Lower(line), TITLE_KEYWORDS) /\ ~JobTypeWord(Lower(line))

\* lines 328-340
FromMeaningful(st, meaningful, preferred) ==
    [st EXCEPT
        !.position = IF @ = <<>> /\ meaningful # <<>>
                     THEN (IF preferred # <<>> THEN preferred[1] ELSE meaningful[1]) ELSE @,
        !.company = IF @ = <<>> /\ Len(meaningful) > 1 THEN meaningful[2] ELSE @]

Preferring(st, meaningful) ==
    FromMeaningful(st, meaningful, SelectSeq(meaningful, PreferredLine))

AfterMeaningful(lines, st) == Preferring(st, SelectSeq(lines, MeaningfulLine))

\* lines 342-378: the searches over the text for the fields still empty
Fallbacks(t, text_lower, st) ==
    [st EXCEPT
        !.location = IF @ = <<>> THEN CitySearch(t) ELSE @,
        !.salary = IF @ = <<>> THEN SalarySearch(t, TextSalary) ELSE @,
        !.remote_hint = IF @ = <<>> THEN RemoteOf(text_lower, <<>>) ELSE @,
        !.job_type = IF @ = <<>> THEN JobTypeOf(text_lower) ELSE @]

\* the location left as the earlier stages found it
LocationAsFound(location, own, cleaned) == IF location # <<>> THEN location ELSE cleaned

\* lines 382-386
NormalizedLocation(location, own, cleaned) ==
    IF own # <<>> THEN own ELSE IF cleaned # <<>> THEN cleaned ELSE location

FinalLocation(location, cleaned_text) ==
    NormalizedLocation(location, CitySearch(location), CitySearch(cleaned_text))

Today == S("2025-06-01")

\* lines 388-400
TextRecord(st, cleaned_text, job_url) ==
    [date_added |-> Today,
     platform |-> S("Handshake"),
     company |-> st.company,
     title |-> st.position,
     location |-> FinalLocation(st.location, cleaned_text),
     salary |-> st.salary,
     job_type |-> st.job_type,
     remote |-> st.remote_hint,
     url |-> job_url,
     status |-> S("Not applied"),
     notes |-> <<>>]

\* the stages in the order of the code, each handing its fields to the next
Staged(t, lines, cleaned_text, logo, job_url) ==
    TextRecord(
        Fallbacks(t, Lower(cleaned_text),
            AfterMeaningful(lines,
                LabelScan(lines, 1,
                    AfterLogoTitle(lines,
                        AfterLogo(lines, FromLabels(LabelsFrom(lines, 1, <<>>)), logo),
                        logo)))),
        cleaned_text, job_url)

Cleaned(t, lines, job_url) == Staged(t, lines, Join(lines, <<"\n">>), LogoLine(lines), job_url)

parse_text(t, job_url) == Cleaned(t, NonEmptyLines(t), job_url)

(***************************************************************************)
(* app/parsers/linkedin.py, handshake.py, generic.py: parse.  A page is    *)
(* what BeautifulSoup makes of the HTML: the content of its og:title and   *)
(* og:site_name meta tags and the text of its h1 ("" when it has none),    *)
(* and its paragraphs; parsable is FALSE for markup the parser rejects,     *)
(* and raises names the steps of parse at which a call of the library      *)
(* raises on this page.                                                    *)
(***************************************************************************)
BeautifulSoup(page) ==
    IF page.parsable THEN Returned(page) ELSE Raised("ParserRejectedMarkup")

\* soup.get_text(" ", strip=True): the stripped non-empty texts, in order
Texts(soup) == (IF soup.h1 # <<>> THEN <<soup.h1>> ELSE <<>>) \o soup.paragraphs

get_text(soup) == Join(Stripped(Texts(soup)), <<" ">>)

\* the job_data every parse function starts from
Defaults(platform, job_url) ==
    [date_added |-> Today,
     platform |-> platform,
     company |-> <<>>,
     title |-> <<>>,
     location |-> <<>>,
     salary |-> <<>>,
     job_type |-> <<>>,
     remote |-> <<>>,
     url |-> job_url,
     status |-> S("Not applied"),
     notes |-> <<>>]

\* the fields every parse function takes from the body text, each in a try
\* of its own that leaves the field as it is when its step raises
BodyFields(data, body_text, body_lower, style, raises) ==
    [data EXCEPT
        !.location = IF "location" \in raises THEN @ ELSE CitySearch(body_text),
        !.salary = IF "salary" \in raises THEN @ ELSE SalarySearch(body_text, style),
        !.remote = IF "remote" \in raises THEN @ ELSE RemoteOf(body_lower, S("On-site")),
        !.job_type = IF "job_type" \in raises THEN @ ELSE JobTypeOf(body_lower)]

BodyText(data, body_text, style, raises) ==
    BodyFields(data, body_text, Lower(body_text), style, raises)

\* soup.get_text stands in no try but the outer one
FromBody(data, soup, style) ==
    IF "get_text" \in soup.raises THEN RaisedWith("Exception", data)
    ELSE Returned(BodyText(data, get_text(soup), style, soup.raises))

\* a parse function without its outer try
OuterTryMissing(defaults, outcome) == outcome

\* an outer try that hands back the defaults whatever was extracted
OuterTryDefaults(defaults, outcome) ==
    IF outcome.exc = "" THEN Returned(outcome.val)
    ELSE Returned([defaults EXCEPT !.notes = S("Parsing error: ") \o S(outcome.exc)])

\* the outer try of a parse function around what it does with the soup:
\* job_data as the exception left it, and the message in notes
OuterTry(defaults, outcome) ==
    IF outcome.exc = "" THEN Returned(outcome.val)
    ELSE Returned([(IF outcome.val = Nothing THEN defaults ELSE outcome.val)
                       EXCEPT !.notes = S("Parsing error: ") \o S(outcome.exc)])

\* linkedin.py lines 55-67: title and company from the stripped og:title
LinkedInTitle(title_text) ==
    IF Contains(title_text, S(" - ")) THEN Strip(Before(title_text, S(" - ")))
    ELSE Strip(Before(title_text, S(" | ")))

LinkedInCompany(title_text) ==
    IF Contains(title_text, S(" - ")) THEN Strip(Before(After(title_text, S(" - ")), S(" | ")))
    ELSE <<>>

\* linkedin.py lines 75-79: the h1 when the title is still empty
TitleOrH1(title, h1) == IF title = <<>> THEN Strip(h1) ELSE title

\* linkedin.py lines 55-79: soup.find("meta", ...) and soup.find("h1") each
\* in a try of its own
LinkedInHead(data, soup, title_text) ==
    [data EXCEPT
        !.title = TitleOrH1(IF soup.og_title # <<>> /\ "og_title" \notin soup.raises
                            THEN LinkedInTitle(title_text) ELSE <<>>,
                            IF "h1" \in soup.raises THEN <<>> ELSE soup.h1),
        !.company = IF soup.og_title # <<>> /\ "og_title" \notin soup.raises
                    THEN LinkedInCompany(title_text) ELSE <<>>]

LinkedInSoup(data, soup) ==
    IF soup.exc # "" THEN soup
    ELSE FromBody(LinkedInHead(data, soup.val, Strip(soup.val.og_title)), soup.val, PageSalary)

LinkedInTry(data, page) == OuterTry(data, LinkedInSoup(data, BeautifulSoup(page)))

linkedin_parse(page, job_url) == LinkedInTry(Defaults(S("LinkedIn"), job_url), page)

\* handshake.py lines 49-57 and generic.py lines 56-64: og:title, else the h1
MetaTitle(soup) ==
    IF "og_title" \in soup.raises THEN <<>>
    ELSE IF soup.og_title # <<>> THEN Strip(soup.og_title)
    ELSE IF "h1" \in soup.raises THEN <<>> ELSE Strip(soup.h1)

HandshakeSoup(data, soup) ==
    IF soup.exc # "" THEN soup
    ELSE FromBody([data EXCEPT
                      !.title = MetaTitle(soup.val),
                      !.company = IF "site_name" \in soup.val.raises THEN <<>>
                                  ELSE Strip(soup.val.site_name)],
                  soup.val, HandshakeSalary)

HandshakeTry(data, page) == OuterTry(data, HandshakeSoup(data, BeautifulSoup(page)))

handshake_parse(page, job_url) == HandshakeTry(Defaults(S("Handshake"), job_url), page)

\* urllib.parse.urlparse(job_url).netloc, for a URL without brackets and
\* without control characters: what follows "//" behind the scheme, up to
\* the first "/", "?" or "#"
SchemeChars == UpperSet \cup LowerSet \cup DigitSet \cup {"+", "-", "."}

HasScheme(u, colon) ==
    /\ colon > 1
    /\ u[1] \in UpperSet \cup LowerSet
    /\ \A i \in 1..(colon - 1) : u[i] \in SchemeChars

NetlocIn(rest) ==
    IF StartsWith(rest, S("//"))
    THEN SubSeq(rest, 3,
             Min({i \in 3..Len(rest) : rest[i] \in {"/", "?", "#"}} \cup {Len(rest) + 1}) - 1)
    ELSE <<>>

SchemeSplit(u, colon) == NetlocIn(IF HasScheme(u, colon) THEN SubSeq(u, colon + 1, Len(u)) ELSE u)

Netloc(u) == SchemeSplit(u, Find(u, <<":">>))

\* generic.py lines 73-76
DomainCompany(domain_parts) ==
    IF Len(domain_parts) >= 2 THEN Capitalize(domain_parts[Len(domain_parts) - 1]) ELSE <<>>

\* generic.py lines 28-34
GenericPlatform(domain) ==
    IF Contains(domain, S("indeed.com")) THEN S("Indeed")
    ELSE IF Contains(domain, S("glassdoor")) THEN S("Glassdoor")
    ELSE S("Other")

GenericSoup(data, soup, job_url) ==
    IF soup.exc # "" THEN soup
    ELSE FromBody([data EXCEPT
                      !.title = MetaTitle(soup.val),
                      !.company = IF "urlparse" \in soup.val.raises THEN <<>>
                                  ELSE DomainCompany(Split(Netloc(job_url), "."))],
                  soup.val, PageSalary)

GenericTry(data, page, job_url) ==
    OuterTry(data, GenericSoup(data, BeautifulSoup(page), job_url))

generic_parse(page, job_url) ==
    GenericTry(Defaults(GenericPlatform(Lower(job_url)), job_url), page, job_url)

(***************************************************************************)
(* app/parsers/__init__.py                                                 *)
(***************************************************************************)
PARSERS ==
    <<[domain |-> S("linkedin.com"), parser |-> "linkedin"],
      [domain |-> S("handshake.com"), parser |-> "handshake"],
      [domain |-> S("joinhandshake.com"), parser |-> "handshake"]>>

\* the parser of the first entry, if any, whose domain the url holds
FirstParser(found) == IF found = {} THEN "generic" ELSE PARSERS[Min(found)].parser

ParserFor(url_lower) ==
    FirstParser({k \in DOMAIN PARSERS : Contains(url_lower, PARSERS[k].domain)})

\* the table searched in the URL as it is written
DetectParserCaseSensitive(u) == ParserFor(u)

detect_parser(u) == ParserFor(Lower(u))

\* parser.parse(html, job_url)
Parse(parser, page, job_url) ==
    CASE parser = "linkedin" -> linkedin_parse(page, job_url)
      [] parser = "handshake" -> handshake_parse(page, job_url)
      [] OTHER -> generic_parse(page, job_url)

\* a fetch that hands back an empty page where the request fails
FetchSwallowed(answer) == Returned(answer.page)

\* requests.get(url, ...), raise_for_status() and response.text: the page, or
\* the exception of the answer
fetch_job_html(answer) ==
    IF answer.status = "ok" THEN Returned(answer.page) ELSE Raised(answer.status)

\* the dict of the extractor handed on as it is
WebRecordAsExtracted(jd, job_url, source) == jd

\* the dict both entry points return
WebRecord(jd, job_url, source) ==
    [position |-> Get(jd, "title", <<>>),
     company |-> Get(jd, "company", <<>>),
     location |-> Get(jd, "location", <<>>),
     salary |-> Get(jd, "salary", <<>>),
     job_type |-> Get(jd, "job_type", <<>>),
     remote |-> Get(jd, "remote", <<>>),
     link |-> job_url,
     source |-> source,
     status |-> S("Applied"),
     notes |-> Get(jd, "notes", <<>>)]

(***************************************************************************)
(* The calls of the entry points: process_job_url on a URL and on what the *)
(* fetch answers for it, parse_handshake_text_wrapper on a pasted text of  *)
(* at most MaxTextLines lines.                                             *)
(***************************************************************************)
MaxParagraphs == 2
MaxTextLines == 3
MaxUrlParts == 3

SeqsUpTo(pool, n) == UNION {[1..k -> pool] : k \in 0..n}

OgTitles == {<<>>, S("Data Engineer - Acme | LinkedIn"), S(" Intern | LinkedIn")}
SiteNames == {<<>>, S("Handshake")}
Headings == {<<>>, S("Farm Hand ")}

ParagraphPool ==
    {S("Full-time internship"), S("Remote or hybrid"), S("part time contract"),
     S("Austin, TX"), S(" $25/hr"), S("Hybrid FULL TIME"), S("$60k - $70k per year")}

\* the steps of parse at which a call can raise, and the pages on which at
\* most MaxFailures of them do
MaxFailures == 2

Steps ==
    {"og_title", "h1", "site_name", "urlparse", "get_text", "location", "salary", "remote",
     "job_type"}

FailingPages ==
    {[parsable |-> TRUE, og_title |-> o, site_name |-> S("Handshake"), h1 |-> S("Farm Hand "),
      paragraphs |-> <<S("Austin, TX"), S(" $25/hr"), S("Hybrid FULL TIME")>>, raises |-> f] :
        o \in {<<>>, S("Data Engineer - Acme | LinkedIn")},
        f \in {f \in SUBSET Steps : Cardinality(f) \in 1..MaxFailures}}

Pages ==
    {NoPage} \cup
    {[parsable |-> TRUE, og_title |-> o, site_name |-> n, h1 |-> h, paragraphs |-> ps,
      raises |-> {}] :
        o \in OgTitles, n \in SiteNames, h \in Headings,
        ps \in SeqsUpTo(ParagraphPool, MaxParagraphs)}

JobUrls ==
    {S("https://www.linkedin.com/jobs/view/1"), S("https://app.joinhandshake.com/jobs/2"),
     S("HTTPS://Jobs.Handshake.COM/3"), S("https://www.indeed.com/viewjob?jk=4"),
     S("http://glassdoor.co.uk/job/5"), S("https://acme.io/careers#6"),
     S("linkedin.com/jobs/7")}

FetchErrors == {"Timeout", "HTTPError", "ConnectionError"}

\* what requests can answer for a URL: an error, or a page when the URL
\* names one (requests.get raises for a URL without http:// or https://)
Answers(u) ==
    {[status |-> e, page |-> NoPage] : e \in FetchErrors} \cup
    (IF StartsWith(Lower(u), S("http://")) \/ StartsWith(Lower(u), S("https://"))
     THEN {[status |-> "ok", page |-> p] : p \in Pages} ELSE {})

TextLinePool ==
    {S("Skip to main content"), S("123 profile views"), S("Acme logo"),
     S("Software Engineer"), S("Acme Corp"), S("Position"), S("Company"), S("Job Type"),
     S("Full-time"), S("Summer internship"), S(" Reno, NV"), S("Posted 3 days ago")}

PastedTexts == {Join(ls, <<"\n">>) : ls \in SeqsUpTo(TextLinePool, MaxTextLines)}

TextUrls == {S("https://app.joinhandshake.com/jobs/1"), <<>>}

\* pasted texts made of label / value line pairs: for each label one of its
\* values or no pair at all, the pairs in this order or in the reverse one,
\* between lines that are no pairs
LabelledValues ==
    <<[label |-> S("Position"), values |-> {S("Software Engineer"), S("Apply")}],
      [label |-> S("company"), values |-> {S("Acme Corp"), S("TechCorp logo")}],
      [label |-> S("Location"), values |-> {S("Office near Reno, NV!"), S("Downtown")}],
      [label |-> S("SALARY"), values |-> {S("$30/hr"), S("Competitive")}],
      [label |-> S("JobType"), values |-> {S("Summer internship"), S("Full-time")}]>>

Absent == <<>>

ValueOrAbsent(k) == LabelledValues[k].values \cup {Absent}

LabelChoices ==
    {<<p, c, l, s, j>> : p \in ValueOrAbsent(1), c \in ValueOrAbsent(2),
        l \in ValueOrAbsent(3), s \in ValueOrAbsent(4), j \in ValueOrAbsent(5)}

PairOrders == {<<1, 2, 3, 4, 5>>, <<5, 4, 3, 2, 1>>}

PairLines(choice, order) ==
    Concat([i \in DOMAIN order |->
        IF choice[order[i]] = Absent THEN <<>>
        ELSE <<LabelledValues[order[i]].label, choice[order[i]]>>])

LinesBefore == {<<>>, <<S("Initech logo")>>, <<S("Data Analyst II"), S("Initech Inc")>>}
LinesBehind ==
    {<<>>, <<S("Hybrid in Austin, TX")>>, <<S("Job Type"), S("Contract")>>,
     <<S("Remote"), S("3 days a week")>>}

\* the pasted texts of tests/test_parsers_handshake.py, indented as there
SampleTexts ==
    {Join(<<<<>>, S("    TechCorp logo"), S("    Software Engineering Intern"),
            S("    TechCorp"), S("    New York, NY"), S("    Internship"), S("    Remote"),
            S("    $30/hr"), S("    ")>>, <<"\n">>),
     Join(<<<<>>, S("    Great opportunity in Seattle, WA!"),
            S("    Full-time Software Developer position."), S("    ")>>, <<"\n">>)}

\* pasted texts that open with a logo line: at most MaxLogoLines lines behind
\* it, and two texts whose two last lines stand at the end of the 8 lines
\* behind the logo line and just behind them
MaxLogoLines == 3

LogoLinePool ==
    {S("Updated 3 days ago"), S("Posted 3 days ago"), S("Please apply by May 1"),
     S("Sales Associate"), S("Data Engineer"), S("NYC"), S("Acme"), S("Reno, NV")}

Filler(n) == [i \in 1..n |-> S("NYC")]

LogoTexts ==
    {Join(<<S("Acme logo")>> \o ls, <<"\n">>) : ls \in SeqsUpTo(LogoLinePool, MaxLogoLines)}
    \cup {Join(<<S("Acme logo")>> \o Filler(n) \o <<S("Sales Associate"), S("Data Engineer")>>,
                <<"\n">>) : n \in {6, 7}}

LabelledTexts ==
    {Join(before \o PairLines(choice, order) \o behind, <<"\n">>) :
        before \in LinesBefore, choice \in LabelChoices, order \in PairOrders,
        behind \in LinesBehind}

InitEntry ==
    /\ pc = "ready" /\ salary_in = <<>>
    /\ ret = Nothing /\ ret2 = <<>> /\ exc = "" /\ job_data = Nothing
    /\ fetch_calls = 0 /\ parse_calls = 0
    /\ NoSheet /\ NoThreads /\ NoWeb
    /\ \/ /\ op = "process_job_url"
          /\ url \in JobUrls /\ net \in Answers(url) /\ text = <<>>
       \/ /\ op = "parse_handshake_text_wrapper"
          /\ net = NoAnswer
          /\ \/ url \in TextUrls /\ text \in PastedTexts \cup SampleTexts
             \/ /\ url = S("https://app.joinhandshake.com/jobs/1")
                /\ text \in LabelledTexts \cup LogoTexts

\* process_job_url, lines 162-189: what follows the fetch, html being what
\* fetch_job_html handed back and parsed what parser.parse did
Processed(html, parsed) ==
    IF html.exc # ""
    THEN /\ exc' = html.exc /\ ret' = Nothing
         /\ UNCHANGED <<job_data, parse_calls>>
    ELSE /\ parse_calls' = parse_calls + 1
         /\ exc' = parsed.exc
         /\ job_data' = parsed.val
         /\ ret' = IF parsed.exc # "" THEN Nothing
                   ELSE WebRecord(parsed.val, url, Get(parsed.val, "platform", S("Unknown")))

Fetched(html) ==
    Processed(html, IF html.exc # "" THEN html ELSE Parse(detect_parser(url), html.val, url))

ProcessJobUrl ==
    /\ op = "process_job_url" /\ pc = "ready"
    /\ fetch_calls' = fetch_calls + 1
    /\ Fetched(fetch_job_html(net))
    /\ pc' = "done"
    /\ UNCHANGED <<op, salary_in, url, text, net, ret2>>
    /\ UNCHANGED <<sheet_vars, thread_vars, web_vars>>

\* parse_handshake_text_wrapper, lines 125-145
Wrapped(parsed) ==
    /\ job_data' = parsed
    /\ ret' = WebRecord(parsed, url, S("Handshake"))

ParseHandshakeTextWrapper ==
    /\ op = "parse_handshake_text_wrapper" /\ pc = "ready"
    /\ Wrapped(parse_text(text, url))
    /\ exc' = ""
    /\ pc' = "done"
    /\ UNCHANGED <<op, salary_in, url, text, net, ret2, fetch_calls, parse_calls>>
    /\ UNCHANGED <<sheet_vars, thread_vars, web_vars>>

Next == ProcessJobUrl \/ ParseHandshakeTextWrapper

Spec == InitEntry /\ [][Next]_vars

(***************************************************************************)
(* The calls of process_job_url whose fetch succeeds, on the page the       *)
(* parser rejects and on pages on which steps of parse raise.               *)
(***************************************************************************)
InitFaults ==
    /\ op = "process_job_url" /\ pc = "ready"
    /\ salary_in = <<>> /\ text = <<>>
    /\ ret = Nothing /\ ret2 = <<>> /\ exc = "" /\ job_data = Nothing
    /\ fetch_calls = 0 /\ parse_calls = 0
    /\ NoSheet /\ NoThreads /\ NoWeb
    /\ url \in JobUrls
    /\ net \in {a \in Answers(url) : a.status = "ok" /\ ~a.page.parsable}
              \cup (IF Answers(url) \subseteq {a \in Answers(url) : a.status # "ok"} THEN {}
                    ELSE {[status |-> "ok", page |-> p] : p \in FailingPages})

SpecFaults == InitFaults /\ [][ProcessJobUrl]_vars

(***************************************************************************)
(* core/jobs.py: parse_linkedin_job, the LinkedIn extractor of the script   *)
(* the parsers of app/parsers were migrated from, beside process_job_url    *)
(* on the same pages.                                                       *)
(***************************************************************************)
\* lines 80-103
JobIdUrl(u, job_id) ==
    IF job_id # <<>> THEN S("https://www.linkedin.com/jobs/view/") \o job_id \o S("/") ELSE u

StrippedLinkedinUrl(u) ==
    IF ~Contains(Lower(u), S("linkedin")) THEN u
    ELSE IF Contains(u, S("/jobs/view/")) THEN u
    ELSE IF Contains(u, S("currentJobId="))
    THEN JobIdUrl(u, SelectSeq(After(u, S("currentJobId=")), LAMBDA c : c \in DigitSet))
    ELSE u

normalize_linkedin_url(u) == StrippedLinkedinUrl(Strip(u))

\* lines 134-139: the content of og:title, else the text of the h1
TitleText(soup) == IF soup.og_title # <<>> THEN Strip(soup.og_title) ELSE Strip(soup.h1)

\* lines 143-146: the title up to the first separator found in it
WithoutSiteName(title_text) ==
    IF Contains(title_text, S(" | LinkedIn")) THEN Strip(Before(title_text, S(" | LinkedIn")))
    ELSE IF Contains(title_text, S(" |")) THEN Strip(Before(title_text, S(" |")))
    ELSE title_text

NoFields == [position |-> <<>>, company |-> <<>>, location |-> <<>>]

\* lines 156-162: rest is what follows " hiring "
HiringRest(st, rest, idx_in) ==
    IF idx_in > 0
    THEN [st EXCEPT !.position = Strip(SubSeq(rest, 1, idx_in - 1)),
                    !.location = Strip(SubSeq(rest, idx_in + 4, Len(rest)))]
    ELSE [st EXCEPT !.position = Strip(rest)]

HiringAt(st, title_text, idx_hiring, rest) ==
    HiringRest([st EXCEPT !.company = Strip(SubSeq(title_text, 1, idx_hiring - 1))],
               rest, Find(Lower(rest), S(" in ")))

\* lines 149-164: pattern 1, "Company hiring Position in City, ST"
HiringPattern(st, title_text, idx_hiring) ==
    IF idx_hiring = 0 THEN st
    ELSE HiringAt(st, title_text, idx_hiring,
                  SubSeq(title_text, idx_hiring + Len(S(" hiring ")), Len(title_text)))

\* lines 171-177: the parts fill the fields that are still empty
DashParts(st, parts) ==
    [position |-> IF st.position = <<>> THEN parts[1] ELSE st.position,
     company |-> IF Len(parts) >= 2 /\ st.company = <<>> THEN parts[2] ELSE st.company,
     location |-> IF Len(parts) >= 3 /\ st.location = <<>> THEN parts[3] ELSE st.location]

StrippedParts(s, sep) == [i \in DOMAIN Split(s, sep) |-> Strip(Split(s, sep)[i])]

\* lines 166-178: pattern 2, "Position - Company - City, ST", on the first
\* of the two separators the title holds
DashPattern(st, title_text) ==
    IF st.company # <<>> /\ st.position # <<>> THEN st
    ELSE IF Contains(title_text, <<EnDash>>) THEN DashParts(st, StrippedParts(title_text, EnDash))
    ELSE IF Contains(title_text, <<"-">>) THEN DashParts(st, StrippedParts(title_text, "-"))
    ELSE st

\* lines 141-178
Decomposed(title_text) ==
    DashPattern(HiringPattern(NoFields, title_text, Find(Lower(title_text), S(" hiring "))),
                title_text)

TitleFields(title_text) ==
    IF title_text = <<>> THEN NoFields ELSE Decomposed(WithoutSiteName(title_text))

\* lines 183-204: both patterns need a digit or a comma in the body
LegacySalary(body) == <<>>

\* lines 214-221
LegacyJobType(body_lower) ==
    IF \/ Contains(body_lower, S("internship")) \/ Contains(body_lower, S("intern position"))
       \/ Contains(body_lower, S("intern -"))
    THEN S("Internship")
    ELSE IF Contains(body_lower, S("full-time")) THEN S("Full-time")
    ELSE IF Contains(body_lower, S("part-time")) THEN S("Part-time")
    ELSE IF Contains(body_lower, S("contract")) THEN S("Contract")
    ELSE IF Contains(body_lower, S("temporary")) THEN S("Temporary")
    ELSE <<>>

\* lines 223-234
LinkedinRecord(fields, body, job_url) ==
    [position |-> fields.position,
     company |-> fields.company,
     location |-> fields.location,
     salary |-> LegacySalary(body),
     job_type |-> LegacyJobType(Lower(body)),
     remote |-> RemoteOf(Lower(body), S("On-site")),
     link |-> job_url,
     source |-> S("LinkedIn"),
     status |-> S("Applied"),
     notes |-> <<>>]

\* lines 118-234, on a page the parser reads
parse_linkedin_job(soup, job_url) ==
    LinkedinRecord(TitleFields(TitleText(soup)), get_text(soup), normalize_linkedin_url(job_url))

\* the titles LinkedIn serves
TitleCompanies == {S("Acme"), S("Coca-Cola")}
TitlePositions == {<<>>, S("Data Engineer")}
TitleLocations == {S("Austin, TX"), S("Reno")}
TitleSuffixes == {<<>>, S(" | LinkedIn")}
TitleDashes == {EnDash, "-"}

HiringIn(c, p, l) == c \o S(" hiring ") \o p \o S(" in ") \o l
Hiring(c, p) == c \o S(" hiring ") \o p
Dashed(p, c, l, d) == p \o <<" ", d, " ">> \o c \o <<" ", d, " ">> \o l

LinkedinTitles ==
    {HiringIn(c, p, l) \o x : c \in TitleCompanies, p \in TitlePositions,
                              l \in TitleLocations, x \in TitleSuffixes}
    \cup {Hiring(c, p) \o x : c \in TitleCompanies, p \in TitlePositions \ {<<>>},
                               x \in TitleSuffixes}
    \cup UNION {{Dashed(p, c, l, d) \o x : c \in TitleCompanies, p \in TitlePositions \ {<<>>},
                                          l \in TitleLocations, x \in TitleSuffixes} :
                   d \in TitleDashes}

TitlePages ==
    {[parsable |-> TRUE, og_title |-> o, site_name |-> <<>>, h1 |-> h, paragraphs |-> <<>>,
      raises |-> {}] : o \in LinkedinTitles, h \in {<<>>, S("Sales Lead")}}

LinkedinUrls ==
    {S("https://www.linkedin.com/jobs/view/1"),
     S("https://www.linkedin.com/jobs/collections/recommended/?currentJobId=42")}

InitTitles ==
    /\ op \in {"process_job_url", "parse_linkedin_job"} /\ pc = "ready"
    /\ salary_in = <<>> /\ text = <<>>
    /\ ret = Nothing /\ ret2 = <<>> /\ exc = "" /\ job_data = Nothing
    /\ fetch_calls = 0 /\ parse_calls = 0
    /\ NoSheet /\ NoThreads /\ NoWeb
    /\ url \in LinkedinUrls
    /\ net \in {[status |-> "ok", page |-> p] : p \in TitlePages}

ParseLinkedinJob ==
    /\ op = "parse_linkedin_job" /\ pc = "ready"
    /\ ret' = parse_linkedin_job(net.page, url)
    /\ pc' = "done"
    /\ UNCHANGED <<op, salary_in, url, text, net, ret2, exc, job_data, fetch_calls, parse_calls>>
    /\ UNCHANGED <<sheet_vars, thread_vars, web_vars>>

NextTitles == ProcessJobUrl \/ ParseLinkedinJob

SpecTitles == InitTitles /\ [][NextTitles]_vars

(***************************************************************************)
(* The calls of detect_parser, on a string put together from at most       *)
(* MaxUrlParts fragments.                                                  *)
(***************************************************************************)
UrlFragments ==
    {S("https://"), S("linkedin.com"), S("LinkedIn.COM"), S("handshake.com"),
     S("joinhandshake.com"), S("linkedin"), S(".com"), S("indeed.com/job"), S("/x")}

DispatchUrls == {Concat(parts) : parts \in SeqsUpTo(UrlFragments, MaxUrlParts)}

InitDispatch ==
    /\ op = "detect_parser" /\ pc = "ready"
    /\ url \in DispatchUrls
    /\ salary_in = <<>> /\ text = <<>> /\ net = NoAnswer
    /\ ret = Nothing /\ ret2 = <<>> /\ exc = "" /\ job_data = Nothing
    /\ fetch_calls = 0 /\ parse_calls = 0
    /\ NoSheet /\ NoThreads /\ NoWeb

DetectParser ==
    /\ op = "detect_parser" /\ pc = "ready"
    /\ ret' = detect_parser(url)
    /\ pc' = "done"
    /\ UNCHANGED <<op, salary_in, url, text, net, ret2, exc, job_data, fetch_calls, parse_calls>>
    /\ UNCHANGED <<sheet_vars, thread_vars, web_vars>>

NextDispatch == DetectParser

SpecDispatch == InitDispatch /\ [][NextDispatch]_vars

(***************************************************************************)
(* app/sheets.py: the worksheet is the sequence of its rows, row 1 the      *)
(* header that get_worksheet puts there, and a row the sequence of its      *)
(* cells. The Google Sheets API either carries a call out or answers with   *)
(* an APIError.                                                            *)
(***************************************************************************)
MaxRows == 3
MaxDays == 2

\* lines 19-31
COLUMNS ==
    <<S("DateApplied"), S("Company"), S("Location"), S("Position"), S("Link"),
      S("Salary"), S("JobType"), S("Remote"), S("Status"), S("Source"), S("Notes")>>

\* date.today().isoformat() on the day numbered d, Today being day 1
IsoDate(d) == SubSeq(Today, 1, Len(Today) - 1) \o <<DigitSeq[d + 1]>>

\* ws.insert_row(values, index): the rows from index on move down by one
insert_row(ws, values, index) ==
    SubSeq(ws, 1, index - 1) \o <<values>> \o SubSeq(ws, index, Len(ws))

\* lines 214-226
JobRow(day, job) ==
    <<IsoDate(day),
      Get(job, "company", <<>>),
      Get(job, "location", <<>>),
      Get(job, "position", <<>>),
      Get(job, "link", <<>>),
      Get(job, "salary", <<>>),
      Get(job, "job_type", <<>>),
      Get(job, "remote", <<>>),
      Get(job, "status", S("Applied")),
      Get(job, "source", <<>>),
      Get(job, "notes", <<>>)>>

\* lines 199-236 with ws.append_row in the place of line 228
AppendedLast(ws, row, api_ok) ==
    IF api_ok
    THEN [exc |-> "", ws |-> insert_row(ws, row, Len(ws) + 1)]
    ELSE [exc |-> "APIError", ws |-> ws]

\* lines 199-236: the worksheet after the call and the exception that leaves it
AppendInserted(ws, row, api_ok) ==
    IF api_ok
    THEN [exc |-> "", ws |-> insert_row(ws, row, 2)]
    ELSE [exc |-> "APIError", ws |-> ws]

append_job_row(ws, day, job, api_ok) == AppendInserted(ws, JobRow(day, job), api_ok)

\* lines 259-263 comparing the cell and the link as they are
FirstUntrimmed(all_values, l) ==
    LET hits == {idx \in 2..Len(all_values) :
                    Len(all_values[idx]) > 4 /\ all_values[idx][5] = l}
    IN IF hits = {} THEN 0 ELSE CHOOSE idx \in hits : \A other \in hits : idx <= other

\* lines 259-266: the loop returns at the first row that matches
FirstRowWithLink(all_values, l) ==
    LET hits == {idx \in 2..Len(all_values) :
                    Len(all_values[idx]) > 4 /\ Strip(all_values[idx][5]) = Strip(l)}
    IN IF hits = {} THEN 0 ELSE CHOOSE idx \in hits : \A other \in hits : idx <= other

\* lines 239-270: the number returned and the number of reads of the sheet,
\* ws.get_all_values() giving the rows of the sheet
find_job_by_link(ws, l, api_ok) ==
    IF l = <<>>
    THEN [val |-> 0, reads |-> 0]
    ELSE IF api_ok
         THEN [val |-> FirstRowWithLink(ws, l), reads |-> 1]
         ELSE [val |-> 0, reads |-> 1]

(***************************************************************************)
(* The calls of append_job_row and find_job_by_link on one worksheet, over  *)
(* at most MaxDays days and until the sheet holds MaxRows rows of jobs.     *)
(***************************************************************************)
SheetLinks ==
    {<<>>, S(" "), S("https://a.co/1"), S(" https://a.co/1 "), S("https://b.co/2")}

SheetJobs ==
    {[company |-> S("Acme"), location |-> S("Reno, NV"), position |-> S("Engineer"),
      link |-> l, salary |-> S("$62,400/yr"), job_type |-> S("Full-time"),
      remote |-> S("Remote"), status |-> S("Interview"), source |-> S("Handshake"),
      notes |-> S("n")] : l \in SheetLinks \ {S(" ")}}
    \cup {[company |-> S("Initech")]}

Answered(api_ok) == [status |-> IF api_ok THEN "ok" ELSE "api_error", page |-> NoPage]

InitSheet ==
    /\ op = "get_worksheet" /\ pc = "done"
    /\ salary_in = <<>> /\ url = <<>> /\ text = <<>> /\ net = NoAnswer
    /\ ret = Nothing /\ ret2 = <<>> /\ exc = "" /\ job_data = Nothing
    /\ fetch_calls = 0 /\ parse_calls = 0
    /\ sheet = <<COLUMNS>> /\ today = 1 /\ link = <<>> /\ sheet_reads = 0
    /\ NoThreads /\ NoWeb

Appended(out, job, api_ok) ==
    /\ op' = "append_job_row" /\ pc' = "done"
    /\ job_data' = job /\ net' = Answered(api_ok)
    /\ sheet' = out.ws /\ exc' = out.exc
    /\ ret' = Nothing /\ link' = <<>> /\ sheet_reads' = 0
    /\ UNCHANGED <<salary_in, url, text, ret2, fetch_calls, parse_calls, today, thread_vars,
                   web_vars>>

AppendJobRow ==
    /\ Len(sheet) <= MaxRows
    /\ \E job \in SheetJobs, api_ok \in BOOLEAN :
          Appended(append_job_row(sheet, today, job, api_ok), job, api_ok)

Found(out, l, api_ok) ==
    /\ op' = "find_job_by_link" /\ pc' = "done"
    /\ link' = l /\ net' = Answered(api_ok)
    /\ ret' = Returned(out.val) /\ sheet_reads' = out.reads
    /\ exc' = "" /\ job_data' = Nothing
    /\ UNCHANGED <<salary_in, url, text, ret2, fetch_calls, parse_calls, sheet, today,
                   thread_vars, web_vars>>

FindJobByLink ==
    \E l \in SheetLinks, api_ok \in BOOLEAN :
        Found(find_job_by_link(sheet, l, api_ok), l, api_ok)

\* midnight
Tick ==
    /\ today < MaxDays
    /\ today' = today + 1
    /\ UNCHANGED <<op, pc, salary_in, url, text, net, ret, ret2, exc, job_data,
                   fetch_calls, parse_calls, sheet, link, sheet_reads, thread_vars,
                   web_vars>>

NextSheet == AppendJobRow \/ FindJobByLink \/ Tick

SpecSheet == InitSheet /\ [][NextSheet]_vars

(***************************************************************************)
(* Extractions side by side: each of MaxThreads threads makes one call, of  *)
(* parse_handshake_text_wrapper of app/parsers or of the one of             *)
(* core/jobs.py, and a step of a thread is a stretch of its call that       *)
(* reads or writes at most one thing other threads can see.  Of the         *)
(* interpreter the model keeps sys.path; the directory above the            *)
(* repository is the place job_tracker is looked for, and it is there in    *)
(* one of the two installations.                                           *)
(***************************************************************************)
MaxThreads == 2

Threads == 1..MaxThreads

RepoDirs == {S("/srv/job-tracker-web"), S("/opt/job-tracker-web")}

\* the directories that hold job_tracker.py
HasJobTracker(dir) == dir = S("/srv")

\* core/jobs.py line 29, Path(__file__).resolve().parent.parent.parent, the
\* repository being the last entry of sys.path
parent_dir(path) ==
    LET parts == Split(path[Len(path)], "/")
    IN  Join(SubSeq(parts, 1, Len(parts) - 1), <<"/">>)

InPath(dir, path) == \E i \in DOMAIN path : path[i] = dir

\* what job_tracker.parse_handshake_text makes of the text is not this
\* repository's: the six values are kept as terms in the text
Imported(t) ==
    [i \in 1..6 |-> [fn |-> "job_tracker.parse_handshake_text", arg |-> t, item |-> i]]

\* core/jobs.py lines 35-48
LegacyRecord(six, job_url) ==
    [position |-> six[1], company |-> six[2], location |-> six[3], salary |-> six[4],
     job_type |-> six[5], remote |-> six[6], link |-> job_url,
     source |-> S("Handshake"), status |-> S("Applied"), notes |-> <<>>]

\* core/jobs.py lines 33-48: the import finds the module in a directory of
\* sys.path or raises
LegacyParsed(t, job_url, path) ==
    IF \E i \in DOMAIN path : HasJobTracker(path[i])
    THEN Returned(LegacyRecord(Imported(t), job_url))
    ELSE Raised("ModuleNotFoundError")

\* core/jobs.py line 31
PathInserted(path, dir) == <<dir>> \o path

ThreadTexts ==
    {S("Position\nSoftware Engineer\nCompany\nAcme Corp"),
     S("Initech logo\nData Analyst II\nHybrid in Austin, TX\n$30/hr"),
     S("Summer internship")}

ThreadUrls == {S("https://app.joinhandshake.com/jobs/1"), S("https://app.joinhandshake.com/jobs/2")}

NewCall(fn, t, job_url) ==
    [fn |-> fn, pc |-> "ready", text |-> t, url |-> job_url, lines |-> <<>>,
     missing |-> FALSE, ret |-> Nothing]

InitThreads ==
    /\ op = "threads" /\ pc = "ready"
    /\ salary_in = <<>> /\ url = <<>> /\ text = <<>> /\ net = NoAnswer
    /\ ret = Nothing /\ ret2 = <<>> /\ exc = "" /\ job_data = Nothing
    /\ fetch_calls = 0 /\ parse_calls = 0
    /\ NoSheet /\ NoWeb
    /\ \E repo \in RepoDirs :
          sys_path \in {<<repo>>, <<parent_dir(<<repo>>), repo>>}
    /\ calls \in [Threads -> {NewCall(fn, t, job_url)
                                : fn \in {"app", "core"}, t \in ThreadTexts,
                                  job_url \in ThreadUrls}]

\* the step of thread th leaves the call c behind
Stepped(th, c) ==
    /\ calls' = [calls EXCEPT ![th] = c]
    /\ UNCHANGED <<op, pc, salary_in, url, text, net, ret, ret2, exc, job_data,
                   fetch_calls, parse_calls, sheet_vars, web_vars>>

\* app/parsers/handshake.py lines 141-142: the lines of the text
AppLines(th) ==
    /\ calls[th].fn = "app" /\ calls[th].pc = "ready"
    /\ Stepped(th, [calls[th] EXCEPT !.pc = "lines", !.lines = NonEmptyLines(calls[th].text)])
    /\ UNCHANGED sys_path

AppReturned(th, c, parsed) ==
    Stepped(th, [c EXCEPT !.pc = "done", !.ret = Returned(WebRecord(parsed, c.url, S("Handshake")))])

\* app/parsers/handshake.py from line 144 on and the wrapper's dict
AppParse(th) ==
    /\ calls[th].fn = "app" /\ calls[th].pc = "lines"
    /\ AppReturned(th, calls[th], Cleaned(calls[th].text, calls[th].lines, calls[th].url))
    /\ UNCHANGED sys_path

\* core/jobs.py line 30
LegacyCheck(th) ==
    /\ calls[th].fn = "core" /\ calls[th].pc = "ready"
    /\ Stepped(th, [calls[th] EXCEPT !.pc = "checked",
                                     !.missing = ~InPath(parent_dir(sys_path), sys_path)])
    /\ UNCHANGED sys_path

\* core/jobs.py line 31
LegacyInsert(th) ==
    /\ calls[th].fn = "core" /\ calls[th].pc = "checked"
    /\ sys_path' = IF calls[th].missing
                   THEN PathInserted(sys_path, parent_dir(sys_path))
                   ELSE sys_path
    /\ Stepped(th, [calls[th] EXCEPT !.pc = "import"])

\* core/jobs.py lines 33-48
LegacyParse(th) ==
    /\ calls[th].fn = "core" /\ calls[th].pc = "import"
    /\ Stepped(th, [calls[th] EXCEPT !.pc = "done",
                       !.ret = LegacyParsed(calls[th].text, calls[th].url, sys_path)])
    /\ UNCHANGED sys_path

NextThreads ==
    \E th \in Threads :
        \/ AppLines(th) \/ AppParse(th)
        \/ LegacyCheck(th) \/ LegacyInsert(th) \/ LegacyParse(th)

SpecThreads == InitThreads /\ [][NextThreads]_vars

(***************************************************************************)
(* app/routes.py add_job and the functions of app/sheets.py it saves with:  *)
(* MaxWorkers workers serve requests side by side on one spreadsheet, and   *)
(* a step of a request is one call of the Google Sheets API, which is       *)
(* carried out or answered with an APIError.  replace_job_by_link is        *)
(* called the way add_job calls replace_last_job.                           *)
(***************************************************************************)
MaxWorkers == 2
MaxJobRows == 2

Workers == 1..MaxWorkers

\* the fields of the review form, stripped (routes.py lines 186-197)
FormJobs ==
    {[position |-> S("Engineer"), company |-> S("Acme"), location |-> <<>>,
      salary |-> S("$30/hr"), job_type |-> <<>>, remote |-> <<>>, link |-> l,
      source |-> <<>>, status |-> S("Applied"), notes |-> <<>>] :
        l \in {<<>>, S("https://a.co/1")}}

\* routes.py lines 201-206
SalaryNormalized(job) ==
    IF job.salary # <<>> THEN [job EXCEPT !.salary = normalize_salary(job.salary)] ELSE job

\* ws.row_values(i), padded as in sheets.py lines 324-326
PaddedRow(ws, i) ==
    LET row_vals == IF i \in DOMAIN ws THEN ws[i] ELSE <<>>
    IN  row_vals \o [k \in 1..(Len(COLUMNS) - Len(row_vals)) |-> <<>>]

\* ws.delete_rows(i)
delete_rows(ws, i) ==
    IF i \in DOMAIN ws THEN SubSeq(ws, 1, i - 1) \o SubSeq(ws, i + 1, Len(ws)) ELSE ws

\* ws.insert_row(values, index) on a sheet that may end before index
InsertPadded(ws, values, index) ==
    insert_row(ws \o [k \in 1..(index - 1 - Len(ws)) |-> <<>>], values, index)

Idling == [kind |-> "", job |-> <<>>, pc |-> "idle", row |-> 0, vals |-> <<>>, flash |-> ""]

\* the request of worker w goes on at pc, or ends with the flash message
GoesOn(w, next_pc) == requests' = [requests EXCEPT ![w].pc = next_pc]
Ends(w, flash) == requests' = [requests EXCEPT ![w].pc = "done", ![w].flash = flash]

\* routes.py lines 178-214: the form is read and the worksheet opened
Start(w, kind, first_pc, served) ==
    /\ requests[w].pc \in {"idle"} \cup served
    /\ Len(sheet) <= MaxJobRows + 1
    /\ \E job \in FormJobs, api_ok \in BOOLEAN :
          requests' = [requests EXCEPT ![w] =
              IF api_ok
              THEN [kind |-> kind, job |-> SalaryNormalized(job), pc |-> first_pc, row |-> 0,
                    vals |-> <<>>, flash |-> ""]
              ELSE [kind |-> kind, job |-> SalaryNormalized(job), pc |-> "done", row |-> 0,
                    vals |-> <<>>, flash |-> "error"]]
    /\ UNCHANGED <<sheet, trash>>

\* a worker serves add_job requests without the replace-last option one
\* after the other, and one request that replaces
StartAdd(w) == Start(w, "add", "find", {"done"})
StartReplaceLast(w) == Start(w, "replace_last", "read", {})
StartReplaceByLink(w) == Start(w, "replace_by_link", "find", {})

\* routes.py lines 226-233 and sheets.py lines 364-365: find_job_by_link
FoundRow(w, r, existing) ==
    IF existing > 0
    THEN IF r.kind = "add" THEN Ends(w, "duplicate")
         ELSE requests' = [requests EXCEPT ![w].pc = "row_values", ![w].row = existing]
    ELSE GoesOn(w, IF r.kind = "add" THEN "append" ELSE "insert")

FindRow(w, r, api_ok) ==
    /\ r.pc = "find"
    /\ FoundRow(w, r, find_job_by_link(sheet, r.job.link, api_ok).val)
    /\ UNCHANGED <<sheet, trash>>

\* routes.py lines 234-240 and the except of line 244: append_job_row
AppendRow(w, r, out) ==
    /\ r.pc = "append"
    /\ sheet' = out.ws
    /\ Ends(w, IF out.exc = "" THEN "added" ELSE "error")
    /\ UNCHANGED trash

\* sheets.py lines 424-428 and the except of line 459: ws.get_all_values()
ReadAll(w, r, api_ok) ==
    /\ r.pc = "read"
    /\ IF api_ok /\ Len(sheet) > 1
       THEN requests' = [requests EXCEPT ![w].pc = "row_values", ![w].row = 2]
       ELSE Ends(w, "no_previous")
    /\ UNCHANGED <<sheet, trash>>

\* sheets.py lines 322-326 and the except of line 355: ws.row_values(row_index)
RowValues(w, r, api_ok) ==
    /\ r.pc = "row_values"
    /\ IF api_ok
       THEN requests' = [requests EXCEPT ![w].pc = "trash_open",
                                         ![w].vals = PaddedRow(sheet, r.row)]
       ELSE GoesOn(w, "fallback")
    /\ UNCHANGED <<sheet, trash>>

\* sheets.py lines 285-287: sh.worksheet("Trash")
TrashOpen(w, r, api_ok) ==
    /\ r.pc = "trash_open"
    /\ GoesOn(w, IF api_ok /\ trash.exists THEN "trash_header" ELSE "trash_create")
    /\ UNCHANGED <<sheet, trash>>

\* sheets.py lines 288-295 and 328-331: sh.add_worksheet, which a worksheet
\* of that title makes fail
TrashCreate(w, r, api_ok) ==
    /\ r.pc = "trash_create"
    /\ IF api_ok /\ ~trash.exists
       THEN trash' = [exists |-> TRUE, rows |-> <<>>] /\ GoesOn(w, "trash_header")
       ELSE trash' = trash /\ GoesOn(w, "fallback")
    /\ UNCHANGED sheet

\* sheets.py lines 298-304: trash.row_values(1)
TrashHeader(w, r, api_ok) ==
    /\ r.pc = "trash_header"
    /\ GoesOn(w, IF api_ok /\ (trash.rows = <<>> \/ Len(trash.rows[1]) < Len(COLUMNS))
                 THEN "trash_header_insert" ELSE "trash_insert")
    /\ UNCHANGED <<sheet, trash>>

\* sheets.py lines 301-304: trash.insert_row(COLUMNS, 1)
TrashHeaderInsert(w, r, api_ok) ==
    /\ r.pc = "trash_header_insert"
    /\ trash' = IF api_ok THEN [trash EXCEPT !.rows = InsertPadded(@, COLUMNS, 1)] ELSE trash
    /\ GoesOn(w, "trash_insert")
    /\ UNCHANGED sheet

\* sheets.py lines 334-339: trash.insert_row(row_vals, 2)
TrashInsert(w, r, api_ok) ==
    /\ r.pc = "trash_insert"
    /\ IF api_ok
       THEN trash' = [trash EXCEPT !.rows = InsertPadded(@, r.vals, 2)] /\ GoesOn(w, "delete")
       ELSE trash' = trash /\ GoesOn(w, "trash_append")
    /\ UNCHANGED sheet

\* sheets.py lines 340-344: trash.append_row(row_vals)
TrashAppend(w, r, api_ok) ==
    /\ r.pc = "trash_append"
    /\ IF api_ok
       THEN trash' = [trash EXCEPT !.rows = @ \o <<r.vals>>] /\ GoesOn(w, "delete")
       ELSE trash' = trash /\ GoesOn(w, "fallback")
    /\ UNCHANGED sheet

\* sheets.py lines 347-352: ws.delete_rows(row_index)
Delete(w, r, api_ok) ==
    /\ r.pc = "delete"
    /\ IF api_ok
       THEN sheet' = delete_rows(sheet, r.row) /\ GoesOn(w, "insert")
       ELSE sheet' = sheet /\ GoesOn(w, "fallback")
    /\ UNCHANGED trash

\* sheets.py lines 394-399 and 447-452: the row is deleted where
\* move_row_to_trash returned False
FallbackDelete(w, r, api_ok) ==
    /\ r.pc = "fallback"
    /\ sheet' = IF api_ok THEN delete_rows(sheet, r.row) ELSE sheet
    /\ GoesOn(w, "insert")
    /\ UNCHANGED trash

\* sheets.py lines 402-408 and 455-461, routes.py lines 220-224:
\* ws.insert_row(row, 2)
Insert(w, r, api_ok) ==
    /\ r.pc = "insert"
    /\ IF api_ok
       THEN /\ sheet' = insert_row(sheet, JobRow(today, r.job), 2)
            /\ Ends(w, IF r.row > 0 THEN "replaced" ELSE "added_new")
       ELSE /\ sheet' = sheet
            /\ Ends(w, IF r.kind = "replace_last" THEN "no_previous" ELSE "error")
    /\ UNCHANGED trash

\* one call of the API by the request of worker w
AddStep(w, r) ==
    \E api_ok \in BOOLEAN :
        \/ FindRow(w, r, api_ok)
        \/ AppendRow(w, r, append_job_row(sheet, today, r.job, api_ok))

ReplaceStep(w, r) ==
    \E api_ok \in BOOLEAN :
        \/ FindRow(w, r, api_ok)
        \/ ReadAll(w, r, api_ok)
        \/ RowValues(w, r, api_ok)
        \/ TrashOpen(w, r, api_ok)
        \/ TrashCreate(w, r, api_ok)
        \/ TrashHeader(w, r, api_ok)
        \/ TrashHeaderInsert(w, r, api_ok)
        \/ TrashInsert(w, r, api_ok)
        \/ TrashAppend(w, r, api_ok)
        \/ Delete(w, r, api_ok)
        \/ FallbackDelete(w, r, api_ok)
        \/ Insert(w, r, api_ok)

\* a signed-in session with the sheet set
SignedIn == [credentials |-> S("token"), sheet_url |-> S("sheet-1")]

Serving ==
    UNCHANGED <<op, pc, salary_in, url, text, net, ret, ret2, exc, job_data, fetch_calls,
                parse_calls, today, link, sheet_reads, thread_vars, session>>

InitServing ==
    /\ op = "add_job" /\ pc = "serving"
    /\ salary_in = <<>> /\ url = <<>> /\ text = <<>> /\ net = NoAnswer
    /\ ret = Nothing /\ ret2 = <<>> /\ exc = "" /\ job_data = Nothing
    /\ fetch_calls = 0 /\ parse_calls = 0
    /\ today = 1 /\ link = <<>> /\ sheet_reads = 0
    /\ NoThreads
    /\ requests = [w \in Workers |-> Idling] /\ session = SignedIn

\* requests without the replace-last option, on a sheet get_worksheet made
InitAddJob == InitServing /\ sheet = <<COLUMNS>> /\ trash = NoTrash

AddJob(w) == (StartAdd(w) \/ AddStep(w, requests[w])) /\ Serving

NextAddJob == \E w \in Workers : AddJob(w)

SpecAddJob == InitAddJob /\ [][NextAddJob]_vars

\* the rows add_job has put into a sheet
SavedRows == {JobRow(1, SalaryNormalized(job)) : job \in FormJobs}

\* requests that replace, on a sheet of at most MaxJobRows rows, the
\* spreadsheet with or without a Trash worksheet
InitReplace ==
    /\ InitServing
    /\ sheet \in {<<COLUMNS>> \o rows : rows \in SeqsUpTo(SavedRows, MaxJobRows)}
    /\ trash \in {NoTrash, [exists |-> TRUE, rows |-> <<COLUMNS>>]}

ReplaceLast(w) == StartReplaceLast(w) /\ Serving

ReplaceByLink(w) == StartReplaceByLink(w) /\ Serving

Replacing(w) == ReplaceStep(w, requests[w]) /\ Serving

NextReplace == \E w \in Workers : ReplaceLast(w) \/ ReplaceByLink(w) \/ Replacing(w)

SpecReplace == InitReplace /\ [][NextReplace]_vars

(***************************************************************************)
(* app/auth.py and the guarded handlers of app/routes.py: the requests of   *)
(* one browser, which waits for the response to one request before it sends *)
(* the next, each with the session the response before it set.  The session is a dict; the messages flash() puts *)
(* into it are left out.  Of a guarded handler the model keeps what it does *)
(* to the session.                                                          *)
(***************************************************************************)
GuardedHandlers == {"set_sheet", "job", "parse_handshake", "add_job"}

RequestUrl(handler) == S("https://tracker.example/") \o S(handler)

OAuthStates == {S("s1"), S("s2")}
Tokens == {S("t1"), S("t2")}

\* request.args.get('state') where the query has no state
NoArg == <<>>

\* session.pop(k, None)
Without(d, k) == [x \in DOMAIN d \ {k} |-> d[x]]

\* session.clear() that drops the credentials only
ClearedCredentials(s) == Without(s, "credentials")

\* session.clear()
Cleared(s) == <<>>

\* routes.py lines 40-93, 98-141, 146-173 and 178-249: what the body of the
\* handler writes to the session; done tells whether its work succeeded
Body(handler, s, done) ==
    CASE handler = "set_sheet" ->
            IF done THEN Put(s, "sheet_url", S("sheet-1")) ELSE s
      [] handler = "job" ->
            IF "sheet_url" \in DOMAIN s /\ done
            THEN Put(s, "pending_handshake_url", S("https://app.joinhandshake.com/jobs/1"))
            ELSE s
      [] handler = "parse_handshake" ->
            IF "sheet_url" \in DOMAIN s /\ done THEN Without(s, "pending_handshake_url") ELSE s
      [] OTHER -> s

Redirected(s, to) == [session |-> s, ran |-> FALSE, to |-> to]

\* auth.py lines 134-160: the credentials after the check, "" where the
\* refresh raised
refresh_credentials_if_needed(credentials, expired, refreshed) ==
    IF expired /\ credentials.refresh_token
    THEN IF refreshed = <<>> THEN [exc |-> "RefreshError", val |-> credentials]
         ELSE Returned([credentials EXCEPT !.token = refreshed])
    ELSE Returned(credentials)

\* auth.py lines 177-193
Refreshed(handler, s, updated, done) ==
    IF updated.exc # "" THEN Redirected(Cleared(s), "login")
    ELSE [session |-> Body(handler, Put(s, "credentials", updated.val), done),
          ran |-> TRUE, to |-> ""]

\* auth.py lines 163-195
require_oauth(handler, s, request_url, expired, refreshed, done) ==
    IF "credentials" \notin DOMAIN s
    THEN Redirected(Put(s, "next_url", request_url), "login")
    ELSE Refreshed(handler, s,
                   refresh_credentials_if_needed(s["credentials"], expired, refreshed), done)

\* auth.py line 233
StateUnchecked(state, arg) == TRUE

\* auth.py line 233: the state of the session is there and is the one of
\* the request
StateVerified(state, arg) == state # <<>> /\ state = arg

\* auth.py lines 236-278: fetch_token answered with the token, or raised
\* where token is empty; email is what userinfo answered, if it did
Exchanged(s, token, email) ==
    IF token = <<>> THEN Redirected(s, "index")
    ELSE Redirected(
             Without(IF email # <<>>
                     THEN Put(Put(s, "credentials", [token |-> token, refresh_token |-> TRUE]),
                              "user_email", email)
                     ELSE Put(s, "credentials", [token |-> token, refresh_token |-> TRUE]),
                     "next_url"),
             IF Get(s, "next_url", <<>>) # <<>> THEN "next_url" ELSE "index")

\* auth.py lines 228-283
oauth2callback(s, arg, token, email) ==
    IF StateVerified(Get(s, "state", <<>>), arg)
    THEN [out |-> Exchanged(s, token, email), exchange |-> Answered(token # <<>>)]
    ELSE [out |-> Redirected(s, "index"), exchange |-> NoAnswer]

InitAuth ==
    /\ op = "browser" /\ pc = "done"
    /\ salary_in = <<>> /\ url = <<>> /\ text = <<>> /\ net = NoAnswer
    /\ ret = Nothing /\ ret2 = <<>> /\ exc = "" /\ job_data = Nothing
    /\ fetch_calls = 0 /\ parse_calls = 0
    /\ NoSheet /\ NoThreads
    /\ trash = NoTrash /\ requests = <<>> /\ session = <<>>

\* the response: what the handler did, for the request to request_url with
\* the state argument arg
Responded(handler, request_url, arg, out, exchange) ==
    /\ op' = handler /\ pc' = "done"
    /\ url' = request_url /\ text' = arg
    /\ ret' = [ran |-> out.ran, to |-> out.to]
    /\ session' = out.session
    /\ net' = exchange
    /\ UNCHANGED <<salary_in, ret2, exc, job_data, fetch_calls, parse_calls, sheet_vars,
                   thread_vars, trash, requests>>

\* a request to a handler behind require_oauth
Guarded ==
    /\ pc = "done"
    /\ \E handler \in GuardedHandlers, expired \in BOOLEAN, refreshed \in Tokens \cup {<<>>},
          done \in BOOLEAN :
           Responded(handler, RequestUrl(handler), NoArg,
                     require_oauth(handler, session, RequestUrl(handler), expired, refreshed,
                                   done),
                     NoAnswer)

\* auth.py lines 201-225, a request without code: consent is asked for, or
\* the flow cannot be built
Login ==
    /\ pc = "done"
    /\ \E state \in OAuthStates \cup {<<>>} :
           Responded("login", RequestUrl("login"), NoArg,
                     IF state = <<>> THEN Redirected(session, "index")
                     ELSE Redirected(Put(session, "state", state), "consent"),
                     NoAnswer)

\* auth.py lines 201-205 and 228-283, a request with code
OAuth2Callback ==
    /\ pc = "done"
    /\ \E arg \in OAuthStates \cup {NoArg}, token \in Tokens \cup {<<>>},
          email \in {<<>>, S("a@b.c")} :
           LET answer == oauth2callback(session, arg, token, email)
           IN  Responded("oauth2callback", RequestUrl("auth/google/callback"), arg,
                         answer.out, answer.exchange)

\* auth.py lines 286-292
Logout ==
    /\ pc = "done"
    /\ Responded("logout", RequestUrl("logout"), NoArg, Redirected(Cleared(session), "index"),
                 NoAnswer)

NextAuth == Guarded \/ Login \/ OAuth2Callback \/ Logout

SpecAuth == InitAuth /\ [][NextAuth]_vars

(***************************************************************************)
(* The properties.                                                         *)
(***************************************************************************)
EntryPoints == {"process_job_url", "parse_handshake_text_wrapper"}

JobPostingFields ==
    {"title", "company", "location", "salary", "job_type", "remote", "platform", "url",
     "status", "notes", "date_added"}

WebFields ==
    {"position", "company", "location", "salary", "job_type", "remote", "link", "source",
     "status", "notes"}

(* C1: for every URL and every pasted text, the record the two entry       *)
(* points return contains every field of the JobPosting data model (title, *)
(* company, location, salary, job_type, remote, platform, url, status,     *)
(* notes, date_added), each present as a string and never absent.          *)
C1_RecordHasEveryField ==
    (op \in EntryPoints /\ pc = "done" /\ exc = "") =>
        \A f \in JobPostingFields : f \in DOMAIN ret /\ ret[f] \in Seq(STRING)

(* C1, as the code has it: the record the two entry points return has      *)
(* exactly the fields position, company, location, salary, job_type,       *)
(* remote, link, source, status and notes, each a string, an empty one     *)
(* where the data is missing; position, link and source carry the          *)
(* extractor's title, the URL of the call and the extractor's platform,    *)
(* status is "Applied", and the extractor's date_added is not in the       *)
(* record.  The extractor's own dict holds every field of the data model.  *)
C1_RecordHasWebFields ==
    (op \in EntryPoints /\ pc = "done" /\ exc = "") =>
        /\ DOMAIN ret = WebFields
        /\ \A f \in WebFields : ret[f] \in Seq(STRING)
        /\ DOMAIN job_data = JobPostingFields
        /\ ret.position = job_data.title
        /\ ret.link = url /\ ret.source = job_data.platform
        /\ \A f \in {"company", "location", "salary", "job_type", "remote", "notes"} :
              ret[f] = job_data[f]
        /\ ret.status = S("Applied")

\* a page with a title and no location: the location is there, and empty
C1_Witness ==
    /\ op = "process_job_url" /\ pc = "done" /\ exc = ""
    /\ ret.position # <<>> /\ ret.location = <<>> /\ ret.salary = <<>>

C3_FetchFailurePropagates ==
    (op = "process_job_url" /\ pc = "done") =>
        /\ fetch_calls = 1
        /\ net.status # "ok" =>
              /\ exc = net.status /\ exc \in FetchErrors
              /\ ret = Nothing /\ job_data = Nothing /\ parse_calls = 0

C3_Witness ==
    /\ op = "process_job_url" /\ pc = "done"
    /\ net.status = "Timeout" /\ exc = "Timeout" /\ fetch_calls = 1 /\ parse_calls = 0

(* C4: detect_parser returns the strategy of the first entry of the table  *)
(* (linkedin.com, handshake.com, joinhandshake.com) whose domain is a      *)
(* substring of the lower-cased URL, the generic strategy when there is    *)
(* none, and never fails; a URL holding linkedin.com in any letter case,   *)
(* anywhere, selects the LinkedIn strategy.                                *)
C4_FirstTableMatch ==
    (op = "detect_parser" /\ pc = "done") =>
        /\ exc = ""
        /\ ret = IF Contains(Lower(url), S("linkedin.com")) THEN "linkedin"
                 ELSE IF Contains(Lower(url), S("handshake.com")) THEN "handshake"
                 ELSE IF Contains(Lower(url), S("joinhandshake.com")) THEN "handshake"
                 ELSE "generic"

\* linkedin.com in capitals behind a Handshake domain
C4_Witness ==
    /\ op = "detect_parser" /\ pc = "done"
    /\ StartsWith(url, S("joinhandshake.com"))
    /\ Contains(url, S("LinkedIn.COM")) /\ ~Contains(url, S("linkedin.com"))
    /\ ret = "linkedin"

(* C5: normalize_salary is idempotent: for every input x,                  *)
(* normalize_salary(normalize_salary(x)) equals normalize_salary(x); an    *)
(* input that already carries a (~$...) annotation is returned without     *)
(* being annotated or converted a second time.                             *)
C5_Idempotent ==
    (op = "normalize_salary" /\ pc = "again") => (exc = "" /\ ret2 = ret)

\* the time units whose markers occur in s
UnitsIn(s) ==
    {u \in {"hourly", "yearly", "monthly"} :
        ContainsAny(Lower(s), CASE u = "hourly" -> HOURLY_MARKERS
                                [] u = "yearly" -> YEARLY_MARKERS
                                [] OTHER -> MONTHLY_MARKERS)}

HasDigit(s) == \E i \in DOMAIN s : s[i] \in DigitSet

(* C6: normalize_salary returns its input unchanged (case preserved,       *)
(* nothing appended) whenever it cannot parse it: when the lower-cased     *)
(* trimmed input is a manual keyword, when the input has no $, no k/K and  *)
(* no time-unit marker, when no numeric value is found, and when there is  *)
(* no time-unit marker; an empty or whitespace-only input returns "".      *)
(* "Unchanged" is read as the claim's own trimming allows: the trimmed     *)
(* input.  An input without any digit holds no numeric value.              *)
C6_UnparsedUnchanged ==
    LET s == Strip(salary_in)
    IN  (/\ op = "normalize_salary" /\ pc = "done"
         /\ \/ Lower(s) \in SALARY_MANUAL_KEYWORDS
            \/ (~Contains(s, S("$")) /\ ~Contains(Lower(s), S("k")) /\ UnitsIn(s) = {})
            \/ ~HasDigit(s)
            \/ UnitsIn(s) = {})
        => (exc = "" /\ ret = s)

\* the output the claim gives for the single amount v and the unit u
C7Expected(v, u) ==
    CASE u = "hourly" ->
            fmt_money(v, 2) \o S("/hr (~") \o fmt_money(Times(v, HOURS_PER_YEAR), 0) \o S("/yr)")
      [] u = "yearly" ->
            fmt_money(v, 0) \o S("/yr (~") \o fmt_money(DivideBy(v, HOURS_PER_YEAR), 2) \o S("/hr)")
      [] OTHER ->
            fmt_money(v, 0) \o S("/mo (~") \o fmt_money(Times(v, MONTHS_PER_YEAR), 0)
            \o S("/yr, ~")
            \o fmt_money(DivideBy(Times(v, MONTHS_PER_YEAR), HOURS_PER_YEAR), 2) \o S("/hr)")

C7Amounts == {S("23"), S("5000"), S("120,000"), S("52")}

\* x is "$" and the amount a, followed by text that holds no further amount,
\* no "$" and no k suffix on a
C7SingleAmount(x, a) ==
    LET s == Strip(x)
        tail == SubSeq(s, Len(a) + 2, Len(s))
    IN  /\ StartsWith(s, <<"$">> \o a)
        /\ ~HasDigit(tail) /\ ~Contains(tail, S("$"))
        /\ At(tail, RunEnd(tail, 1, WhitespaceSet)) \notin KSet

(* C7: for an input with one $-anchored amount v and one time-unit marker, *)
(* normalize_salary returns, for hourly, v with two decimals followed by   *)
(* /hr (~$Y/yr), Y = v * 2080; for yearly, v as an integer amount followed *)
(* by /yr (~$H/hr), H = v / 2080 to two decimals; for monthly, v followed  *)
(* by /mo (~$Y/yr, ~$H/hr), Y = v * 12, H = Y / 2080; integer amounts      *)
(* carry thousands separators.  $23/hr gives $23.00/hr (~$47,840/yr),      *)
(* $5000/mo gives $5,000/mo (~$60,000/yr, ~$28.85/hr), $120,000/yr gives   *)
(* $120,000/yr (~$57.69/hr).                                               *)
C7_SingleAmountConversion ==
    (op = "normalize_salary" /\ pc = "done") =>
        /\ \A a \in C7Amounts : \A u \in {"hourly", "yearly", "monthly"} :
              (C7SingleAmount(salary_in, a) /\ UnitsIn(salary_in) = {u})
                  => (exc = "" /\ ret = C7Expected(ParseFloat(a), u))
        /\ salary_in = S("$23/hr") => ret = S("$23.00/hr (~$47,840/yr)")
        /\ salary_in = S("$5000/mo") => ret = S("$5,000/mo (~$60,000/yr, ~$28.85/hr)")
        /\ salary_in = S("$120,000/yr") => ret = S("$120,000/yr (~$57.69/hr)")

\* the classification the claim gives for a lower-cased text
C8Priority(lower) ==
    IF ContainsAny(lower, <<S("internship"), S("intern position")>>) THEN S("Internship")
    ELSE IF ContainsAny(lower, <<S("full-time"), S("full time")>>) THEN S("Full-time")
    ELSE IF ContainsAny(lower, <<S("part-time"), S("part time")>>) THEN S("Part-time")
    ELSE IF Contains(lower, S("contract")) THEN S("Contract")
    ELSE <<>>

\* a call that extracted: the page parsed, or a pasted text
C8Extracted ==
    /\ op \in EntryPoints /\ pc = "done" /\ exc = ""
    /\ job_data.notes = <<>>

\* the text the keywords are looked for in
C8Text == IF op = "process_job_url" THEN get_text(net.page) ELSE text

\* a line of the pasted text is a job type label
C8Labelled ==
    \E i \in DOMAIN NonEmptyLines(text) : Lower(NonEmptyLines(text)[i]) \in JOB_TYPE_LABELS

C9_RemoteIsOneOfThree ==
    (op = "process_job_url" /\ pc = "done" /\ exc = "" /\ job_data.notes = <<>>) =>
        /\ ret.remote \in {S("Remote"), S("Hybrid"), S("On-site")}
        /\ Contains(Lower(get_text(net.page)), S("remote")) => ret.remote = S("Remote")
        /\ (/\ ~Contains(Lower(get_text(net.page)), S("remote"))
            /\ Contains(Lower(get_text(net.page)), S("hybrid"))) => ret.remote = S("Hybrid")
        /\ (/\ ~Contains(Lower(get_text(net.page)), S("remote"))
            /\ ~Contains(Lower(get_text(net.page)), S("hybrid"))) => ret.remote = S("On-site")

\* a page with both keywords, parsed by the generic parser
C9_Witness ==
    /\ op = "process_job_url" /\ pc = "done" /\ exc = ""
    /\ ret.source = S("Indeed")
    /\ Contains(get_text(net.page), S("Remote")) /\ Contains(get_text(net.page), S("hybrid"))
    /\ ret.remote = S("Remote")

(* C10: for every pasted text, the title and the company the free-text     *)
(* extractor returns are never a line the noise filter classifies as noise *)
(* ("123 profile views", "Skip to main content"), whichever stage selected *)
(* them.  A field left empty is no line.                                   *)
C10_NeverNoise ==
    (op = "parse_handshake_text_wrapper" /\ pc = "done") =>
        /\ job_data.title # <<>> => ~is_noise(job_data.title)
        /\ job_data.company # <<>> => ~is_noise(job_data.company)

\* where a label stands in the lines of the text, and the line behind it
C11LabelAt(lines, l) == {i \in DOMAIN lines : Lower(lines[i]) = l}

C11Has(lines, l) == C11LabelAt(lines, l) # {}

C11Value(lines, l) == lines[(CHOOSE i \in C11LabelAt(lines, l) : TRUE) + 1]

\* the labels form label / value pairs: no label twice, and a line that is
\* no label behind every label
C11Pairs(lines) ==
    /\ \A l \in LABELS : Cardinality(C11LabelAt(lines, l)) <= 1
    /\ \A i \in DOMAIN lines :
          Lower(lines[i]) \in LABELS =>
              i < Len(lines) /\ Lower(lines[i + 1]) \notin LABELS

C11AllFive(lines) ==
    \A l \in {S("position"), S("company"), S("location"), S("salary"), S("jobtype")} :
        C11Has(lines, l)

C11Kept(lines) ==
    /\ C11Has(lines, S("position")) => ret.position = C11Value(lines, S("position"))
    /\ C11Has(lines, S("company")) => ret.company = C11Value(lines, S("company"))
    /\ C11Has(lines, S("salary")) => ret.salary = C11Value(lines, S("salary"))
    /\ (/\ C11Has(lines, S("jobtype"))
        /\ \/ C11AllFive(lines)
           \/ ~(C11Has(lines, S("job type")) \/ C11Has(lines, S("employment type"))))
           => ret.job_type = C11Value(lines, S("jobtype"))
    /\ (/\ C11Has(lines, S("location"))
        /\ CitySearch(C11Value(lines, S("location"))) # <<>>)
           => ret.location = CitySearch(C11Value(lines, S("location")))

(* C11: when the pasted text holds label / value line pairs, the title,   *)
(* the company, the salary and the job type the free-text extractor       *)
(* returns are the values behind the Position, Company, Salary and        *)
(* JobType labels, and the location is the City, ST match of the value    *)
(* behind the Location label; no later stage (logo line, title after the  *)
(* logo, fallback scan, meaningful lines, keywords) replaces them.  This  *)
(* holds label by label; for JobType it takes all five pairs, or no other *)
(* spelling of the job type label in the text.                            *)
C11_LabelledValuesKept ==
    (op = "parse_handshake_text_wrapper" /\ pc = "done") =>
        LET lines == NonEmptyLines(text)
        IN  C11Pairs(lines) => C11Kept(lines)

\* all five pairs behind a logo line and in front of another City, ST
C11_Witness ==
    /\ op = "parse_handshake_text_wrapper" /\ pc = "done"
    /\ C11Pairs(NonEmptyLines(text)) /\ C11AllFive(NonEmptyLines(text))
    /\ StartsWith(text, S("Initech logo")) /\ Contains(text, S("Austin, TX"))
    /\ Contains(text, S("Summer internship"))
    /\ ret.company = S("Acme Corp") /\ ret.location = S("Reno, NV")
    /\ ret.job_type = S("Summer internship")

\* the City, ST matches of a string
C12Matches(s) ==
    {SubSeq(s, p, CityStateAt(s, p) - 1) : p \in {q \in DOMAIN s : CityStateAt(s, q) > 0}}

C12Located(lines, cleaned) ==
    CitySearch(cleaned) # <<>> =>
        /\ CityStateLine(ret.location)
        /\ ret.location \in C12Matches(cleaned) \cup C12Matches(text)
        /\ (\A i \in DOMAIN lines : Lower(lines[i]) # S("location")) =>
              ret.location = CitySearch(text)

(* C12: for every pasted text in which the City, ST pattern matches, the  *)
(* location the free-text extractor returns is exactly a match of the     *)
(* pattern: nothing in front of it and nothing behind it, never the raw   *)
(* value of a label; it is a match found in the text, and where no line   *)
(* is a location label it is the first match of the text.  A text with    *)
(* "Seattle, WA!" gives "Seattle, WA".                                    *)
C12_LocationIsCityState ==
    (op = "parse_handshake_text_wrapper" /\ pc = "done") =>
        LET lines == NonEmptyLines(text)
        IN  C12Located(lines, Join(lines, <<"\n">>))

C12_Witness ==
    /\ op = "parse_handshake_text_wrapper" /\ pc = "done"
    /\ Contains(text, S("Seattle, WA!"))
    /\ ret.location = S("Seattle, WA")

C13JobTypes == {S("Internship"), S("Full-time"), S("Part-time"), S("Contract"), <<>>}

C13Remotes == {S("Remote"), S("Hybrid"), S("On-site"), <<>>}

\* v is the line behind a line that is one of the labels
C13Labelled(lines, labels, v) ==
    \E i \in 1..(Len(lines) - 1) : Lower(lines[i]) \in labels /\ lines[i + 1] = v

(* C13: in every record of every extractor, structured or free-text,      *)
(* job_type is one of Internship, Full-time, Part-time, Contract and ""   *)
(* and remote is one of Remote, Hybrid, On-site and "".                   *)
C13_EnumValues ==
    (op \in EntryPoints /\ pc = "done" /\ exc = "") =>
        ret.job_type \in C13JobTypes /\ ret.remote \in C13Remotes

C13Enumerated(lines) ==
    /\ \/ ret.job_type \in C13JobTypes
       \/ op = "parse_handshake_text_wrapper"
             /\ C13Labelled(lines, JOB_TYPE_LABELS, ret.job_type)
    /\ \/ ret.remote \in C13Remotes
       \/ op = "parse_handshake_text_wrapper"
             /\ C13Labelled(lines, {S("remote")}, ret.remote)

(* C13, as the code has it: job_type is one of the five values and remote *)
(* one of the four in every record of the structured extractors, and in   *)
(* every record of the free-text extractor unless the value is the line   *)
(* behind a job type label (for job_type) or behind a remote label (for   *)
(* remote), which is returned as it is written.                           *)
C13_EnumValuesOrLabelled ==
    (op \in EntryPoints /\ pc = "done" /\ exc = "") => C13Enumerated(NonEmptyLines(text))

\* a labelled job type outside the five values beside a remote keyword
C13_Witness ==
    /\ op = "parse_handshake_text_wrapper" /\ pc = "done"
    /\ ret.job_type = S("Summer internship") /\ ret.remote = S("Hybrid")

\* a page whose visible text is the text t
C14PageOf(t) ==
    [parsable |-> TRUE, og_title |-> <<>>, site_name |-> <<>>, h1 |-> <<>>,
     paragraphs |-> <<t>>, raises |-> {}]

\* what the structured extractors make of that page
C14Structured(t) ==
    {Parse(parser, C14PageOf(t), url).val : parser \in {"linkedin", "handshake", "generic"}}

\* no line of the text is a label
C14Unlabelled(lines) == \A i \in DOMAIN lines : Lower(lines[i]) \notin LABEL_WORDS

(* C14: the structured and the free-text path never diverge in            *)
(* classification: for a pasted text without labelled fields, the         *)
(* job_type and the remote value of the free-text extractor equal those a *)
(* structured extractor gives for a page whose visible text is that text. *)
C14_SameClassification ==
    (op = "parse_handshake_text_wrapper" /\ pc = "done" /\ C14Unlabelled(NonEmptyLines(text))) =>
        \A page \in C14Structured(text) :
            job_data.job_type = page.job_type /\ job_data.remote = page.remote

\* the pasted text of test_parse_text_basic
C15Sample == CHOOSE t \in SampleTexts : Contains(t, S("TechCorp logo"))

\* line is "<Name> logo": the name, white space, and logo in any letter case
C15NameOf(line) == Strip(SubSeq(line, 1, Len(line) - 4))

C15LogoForm(line) ==
    /\ Len(line) > 5
    /\ Lower(SubSeq(line, Len(line) - 3, Len(line))) = S("logo")
    /\ line[Len(line) - 4] \in WhitespaceSet
    /\ ~is_noise(C15NameOf(line)) /\ Len(C15NameOf(line)) > 2

\* at is where the lines hold "logo"
C15FromLogo(lines, at) ==
    (/\ at # {}
     /\ \A i \in DOMAIN lines : Lower(lines[i]) # S("company")
     /\ C15LogoForm(lines[Min(at \cup {Len(lines)})]))
        => ret.company = C15NameOf(lines[Min(at \cup {Len(lines)})])

C15Logos(lines) ==
    C15FromLogo(lines, {i \in DOMAIN lines : Contains(Lower(lines[i]), S("logo"))})

(* C15: when the first line of the pasted text that holds "logo" reads    *)
(* "<Name> logo", the name is no noise and longer than 2 characters and   *)
(* no line is a company label, the free-text extractor returns the name   *)
(* as the company.  For the lines TechCorp logo / Software Engineering    *)
(* Intern / TechCorp / New York, NY / Internship / Remote / $30/hr it     *)
(* gives the company TechCorp, a title with "Software", a location with   *)
(* "New York", the job type Internship and remote Remote.                 *)
C15_LogoCompany ==
    (op = "parse_handshake_text_wrapper" /\ pc = "done") =>
        /\ C15Logos(NonEmptyLines(text))
        /\ text = C15Sample =>
              /\ ret.company = S("TechCorp")
              /\ Contains(ret.position, S("Software"))
              /\ Contains(ret.location, S("New York"))
              /\ ret.job_type = S("Internship")
              /\ ret.remote = S("Remote")

C15_Witness ==
    /\ op = "parse_handshake_text_wrapper" /\ pc = "done"
    /\ text = C15Sample
    /\ ret.company = S("TechCorp") /\ ret.position = S("Software Engineering Intern")

(* C16: find_job_by_link returns the 1-based number, at least 2, of the     *)
(* first row below the header whose fifth cell equals the link once both    *)
(* are stripped; it returns 0 when no such row exists, when the link is     *)
(* empty, and then without reading the sheet, and when reading the sheet    *)
(* fails; and no call of it changes the sheet.                              *)
C16Match(row, l) == Len(row) > 4 /\ Strip(row[5]) = Strip(l)

C16Answer(ws, l, n) ==
    \/ /\ n = 0
       /\ \A idx \in 2..Len(ws) : ~C16Match(ws[idx], l)
    \/ /\ n \in 2..Len(ws)
       /\ C16Match(ws[n], l)
       /\ \A idx \in 2..(n - 1) : ~C16Match(ws[idx], l)

C16Result ==
    op = "find_job_by_link" =>
        /\ ret.exc = ""
        /\ link = <<>> => ret.val = 0 /\ sheet_reads = 0
        /\ link # <<>> /\ net.status = "api_error" => ret.val = 0
        /\ link # <<>> /\ net.status = "ok" => C16Answer(sheet, link, ret.val)

C16_FindJobByLink == []C16Result /\ [][op' = "find_job_by_link" => sheet' = sheet]_vars

\* the second of three rows is found through a link written with spaces
\* around it, a later row holding the same link
C16_Witness ==
    /\ op = "find_job_by_link" /\ net.status = "ok"
    /\ Len(sheet) = 4 /\ ret.val = 3
    /\ sheet[3][5] # link
    /\ C16Match(sheet[4], link)
(* C17: a call of append_job_row that succeeds puts exactly one row at      *)
(* position 2, holding the date of the day and the job's company,           *)
(* location, position, link, salary, job type, remote, status, source and   *)
(* notes in this order, and leaves the header in row 1 and the rows that    *)
(* were there below the new one, unchanged and in their order; so the       *)
(* header is always row 1 and the rows below it are ordered from the        *)
(* newest to the oldest.                                                    *)
C17Cell(job, key) == IF key \in DOMAIN job THEN job[key] ELSE <<>>

C17Row(day, job) ==
    <<IsoDate(day), C17Cell(job, "company"), C17Cell(job, "location"),
      C17Cell(job, "position"), C17Cell(job, "link"), C17Cell(job, "salary"),
      C17Cell(job, "job_type"), C17Cell(job, "remote"),
      IF "status" \in DOMAIN job THEN job.status ELSE S("Applied"),
      C17Cell(job, "source"), C17Cell(job, "notes")>>

C17Day(row) == CHOOSE d \in 0..9 : DigitSeq[d + 1] = row[1][Len(row[1])]

C17NewestFirst(ws) ==
    /\ ws[1] = COLUMNS
    /\ \A i \in 2..Len(ws) : \A j \in i..Len(ws) :
          /\ Len(ws[i]) = Len(COLUMNS)
          /\ C17Day(ws[i]) >= C17Day(ws[j])

C17Step ==
    op' = "append_job_row" /\ exc' = "" /\ today' = today =>
        /\ Len(sheet') = Len(sheet) + 1
        /\ sheet'[1] = sheet[1]
        /\ sheet'[2] = C17Row(today, job_data')
        /\ \A i \in 2..Len(sheet) : sheet'[i + 1] = sheet[i]

C17_AppendJobRow == []C17NewestFirst(sheet) /\ [][C17Step]_vars

\* a job without a status appended on the second day above two rows, the
\* lower one of the first day
C17_Witness ==
    /\ op = "append_job_row" /\ exc = ""
    /\ Len(sheet) = 4
    /\ "status" \notin DOMAIN job_data
    /\ sheet[2] = C17Row(today, job_data)
    /\ sheet[2][9] = S("Applied")
    /\ C17Day(sheet[2]) > C17Day(sheet[4])
\* the three forms of a converted salary
C19Converted(out) == Contains(out, S(" (~$"))

C19AsHourly(out) == Contains(out, S("/hr (~$")) /\ EndsWith(out, S("/yr)"))

C19AsYearly(out) == Contains(out, S("/yr (~$")) /\ EndsWith(out, S("/hr)"))

C19AsMonthly(out) ==
    Contains(out, S("/mo (~$")) /\ Contains(out, S("/yr, ~$")) /\ EndsWith(out, S("/hr)"))

C19Unit(out) ==
    {u \in {"hourly", "yearly", "monthly"} :
        CASE u = "hourly" -> C19AsHourly(out)
          [] u = "yearly" -> C19AsYearly(out)
          [] OTHER -> C19AsMonthly(out)}

(* C19: whenever normalize_salary converts a salary string, the unit of    *)
(* the conversion is hourly if an hourly marker occurs in the string,      *)
(* yearly if a yearly marker and no hourly marker occurs, and monthly only *)
(* if a monthly marker and neither an hourly nor a yearly marker occurs,   *)
(* whatever other markers the string holds and in whatever order.          *)
C19_UnitPriority ==
    (op = "normalize_salary" /\ pc = "done" /\ exc = "" /\ C19Converted(ret)) =>
        LET units == UnitsIn(salary_in)
        IN  C19Unit(ret) = IF "hourly" \in units THEN {"hourly"}
                           ELSE IF "yearly" \in units THEN {"yearly"}
                           ELSE {"monthly"} \cap units

\* a yearly marker, then an hourly one behind the amount
C19_Witness ==
    /\ op = "normalize_salary" /\ pc = "done" /\ exc = ""
    /\ UnitsIn(salary_in) = {"hourly", "yearly"}
    /\ EndsWith(salary_in, S("/hr"))
    /\ C19AsHourly(ret)
C20Amounts == C7Amounts \cup {S("70")}

\* what is behind the amount a at the head of x
C20Tail(x, a) == SubSeq(Strip(x), Len(a) + 2, Len(Strip(x)))

\* x is "$" and the amount a, followed by text that holds no further amount
C20SingleAmount(x, a) ==
    /\ StartsWith(Strip(x), <<"$">> \o a)
    /\ ~HasDigit(C20Tail(x, a)) /\ ~Contains(C20Tail(x, a), S("$"))

\* the amount carries a k or K suffix, white space allowed in front of it
C20OwnSuffix(tail) == At(tail, RunEnd(tail, 1, WhitespaceSet)) \in KSet

\* the value the claim gives the amount
C20Value(v, suffixed) == IF suffixed /\ LessThan1000(v) THEN Times1000(v) ELSE v

(* C20: a $-anchored amount is multiplied by 1000 exactly when the amount  *)
(* itself carries a k/K suffix and is under 1000: for an input with one    *)
(* $-anchored amount and one time unit the result is the conversion of the *)
(* amount times 1000 in that case and of the amount at its face value      *)
(* otherwise, whatever the rest of the string reads.                       *)
C20_OwnSuffixScales ==
    (op = "normalize_salary" /\ pc = "done") =>
        \A a \in C20Amounts : \A u \in {"hourly", "yearly", "monthly"} :
            (C20SingleAmount(salary_in, a) /\ UnitsIn(salary_in) = {u})
                => /\ exc = ""
                   /\ ret = C7Expected(C20Value(ParseFloat(a),
                                                C20OwnSuffix(C20Tail(salary_in, a))), u)
\* what the call c returns when it runs alone, path being sys.path
C18Alone(c, path) ==
    IF c.fn = "app"
    THEN Returned(WebRecord(parse_text(c.text, c.url), c.url, S("Handshake")))
    ELSE LegacyParsed(c.text, c.url,
             IF InPath(parent_dir(path), path) THEN path
             ELSE PathInserted(path, parent_dir(path)))

C18SameAsAlone ==
    op = "threads" =>
        \A th \in DOMAIN calls :
            calls[th].pc = "done" => calls[th].ret = C18Alone(calls[th], sys_path)

(* C18: extraction calls share no mutable state: in every interleaving of  *)
(* the calls of two or more threads each call returns the record it        *)
(* returns when it runs alone, and no step of a call changes anything      *)
(* outside the call, sys.path included.                                    *)
C18_NoSharedState == []C18SameAsAlone /\ [][sys_path' = sys_path]_vars
\* the output the claim gives for the range lo, hi and the unit u
C21Expected(lo, hi, u) ==
    LET perYear(v) == fmt_money(Times(v, HOURS_PER_YEAR), 0)
        perHour(v) == fmt_money(DivideBy(v, HOURS_PER_YEAR), 2)
        yearOf(v) == Times(v, MONTHS_PER_YEAR)
    IN  CASE u = "hourly" ->
                fmt_money(lo, 2) \o <<EnDash>> \o fmt_money(hi, 2) \o S("/hr (~")
                \o perYear(lo) \o <<EnDash>> \o perYear(hi) \o S("/yr)")
          [] u = "yearly" ->
                fmt_money(lo, 0) \o <<EnDash>> \o fmt_money(hi, 0) \o S("/yr (~")
                \o perHour(lo) \o <<EnDash>> \o perHour(hi) \o S("/hr)")
          [] OTHER ->
                fmt_money(lo, 0) \o <<EnDash>> \o fmt_money(hi, 0) \o S("/mo (~")
                \o fmt_money(yearOf(lo), 0) \o <<EnDash>> \o fmt_money(yearOf(hi), 0)
                \o S("/yr, ~") \o perHour(yearOf(lo)) \o <<EnDash>> \o perHour(yearOf(hi))
                \o S("/hr)")

\* the ranges of the inputs: the first amount, its suffix, what stands
\* between the amounts, the second amount
C21Ranges ==
    {[lo |-> a, k |-> k, sep |-> sep.text, hi |-> sep.hi] :
        a \in C20Amounts, k \in {<<>>, S("k")},
        sep \in {[text |-> S(" - $"), hi |-> S("30")], [text |-> <<EnDash>>, hi |-> S("90")]}}

C21Head(r) == <<"$">> \o r.lo \o r.k \o r.sep \o r.hi

\* x is the range r followed by text that holds no further amount
C21IsRange(x, r) ==
    /\ StartsWith(Strip(x), C21Head(r))
    /\ ~HasDigit(C20Tail(x, SubSeq(C21Head(r), 2, Len(C21Head(r)))))
    /\ ~Contains(C20Tail(x, SubSeq(C21Head(r), 2, Len(C21Head(r)))), S("$"))

C21Lo(r) == C20Value(ParseFloat(r.lo), r.k # <<>>)

C21Hi(x, r) ==
    C20Value(ParseFloat(r.hi),
             C20OwnSuffix(C20Tail(x, SubSeq(C21Head(r), 2, Len(C21Head(r))))))

(* C21: for an input with two $-anchored amounts lo and hi, written as a   *)
(* range, and one time unit, normalize_salary returns lo and hi in the     *)
(* unit of the input, joined by an en dash, followed by the converted      *)
(* pairs in the same order, every value converted and formatted as a       *)
(* single amount is; $23 - $30/hr gives $23.00–$30.00/hr                    *)
(* (~$47,840–$62,400/yr).                                                  *)
C21_RangeConversion ==
    (op = "normalize_salary" /\ pc = "done") =>
        /\ \A r \in C21Ranges : \A u \in {"hourly", "yearly", "monthly"} :
              (C21IsRange(salary_in, r) /\ UnitsIn(salary_in) = {u})
                  => (exc = "" /\ ret = C21Expected(C21Lo(r), C21Hi(salary_in, r), u))
        /\ salary_in = S("$23 - $30/hr") => ret = S("$23.00") \o <<EnDash>>
              \o S("$30.00/hr (~$47,840") \o <<EnDash>> \o S("$62,400/yr)")
\* the record before the title is looked for behind the logo line
C22Before(lines) == AfterLogo(lines, FromLabels(LabelsFrom(lines, 1, <<>>)), LogoLine(lines))

\* the lines of the window behind the logo line that survive all exclusions
C22Surviving(lines, logo, company) ==
    {i \in (logo + 1)..Min({logo + 8, Len(lines)}) :
        ~EndsTitleScan(Lower(lines[i])) /\ ~NotATitle(lines[i], company)}

C22Title(lines, st) ==
    (LogoLine(lines) > 0 /\ st.position = <<>>
     /\ C22Surviving(lines, LogoLine(lines), st.company) # {})
        => ret.position = lines[Min(C22Surviving(lines, LogoLine(lines), st.company))]

(* C22: when the text has a logo line and the title is unset when the      *)
(* lines behind it are looked at, the title returned is the first of the   *)
(* 8 lines behind the logo line that is none of: a line starting with      *)
(* "posted", a line holding "N days ago" or "apply by", the company, a      *)
(* noise line, a line of 3 characters or fewer, an all-uppercase line, a   *)
(* City, ST line; lines of these kinds are passed over and the lines       *)
(* behind them are looked at.                                              *)
C22_TitleAfterLogo ==
    (op = "parse_handshake_text_wrapper" /\ pc = "done") =>
        LET lines == NonEmptyLines(text)
        IN  C22Title(lines, C22Before(lines))
\* the record before the meaningful lines are looked at
C23Before(lines) ==
    LabelScan(lines, 1, AfterLogoTitle(lines, C22Before(lines), LogoLine(lines)))

C23Meaningful(lines) == {i \in DOMAIN lines : MeaningfulLine(lines[i])}

C23TwoLines(lines, st) ==
    (st.position = <<>> /\ st.company = <<>> /\ Cardinality(C23Meaningful(lines)) > 1)
        => \E i \in C23Meaningful(lines) : \E j \in C23Meaningful(lines) \ {i} :
              ret.position = lines[i] /\ ret.company = lines[j]

(* C23: when title and company are both unset before the meaningful lines  *)
(* are looked at and there are two meaningful lines or more, so that both  *)
(* are filled from them, the title and the company returned are two        *)
(* different lines of the text.                                            *)
C23_TitleAndCompanyDiffer ==
    (op = "parse_handshake_text_wrapper" /\ pc = "done") =>
        LET lines == NonEmptyLines(text)
        IN  C23TwoLines(lines, C23Before(lines))
\* the page without the tags the steps that raise on it were to find
\* (LinkedIn looks for the h1 in a try of its own, the two others in the try
\* of og:title)
C24Blanked(parser, page) ==
    [page EXCEPT
        !.og_title = IF "og_title" \in page.raises THEN <<>> ELSE @,
        !.h1 = IF \/ "h1" \in page.raises
                  \/ parser # "linkedin" /\ "og_title" \in page.raises
               THEN <<>> ELSE @,
        !.site_name = IF "site_name" \in page.raises THEN <<>> ELSE @,
        !.raises = {}]

C24Extracted == {"title", "company", "location", "salary", "job_type", "remote"}

C24BodyFields == {"location", "salary", "job_type", "remote"}

\* the stage outside the tries of the fields fails on this page
C24OuterFails(page) == ~page.parsable \/ "get_text" \in page.raises

\* the record of a call whose fields are extracted one by one: clean is the
\* record of the same page with no step raising
C24FieldByField(data, page, clean) ==
    /\ \A f \in C24BodyFields :
          data[f] = IF f \in page.raises THEN <<>> ELSE clean[f]
    /\ data.title = (IF \/ "og_title" \in page.raises
                        \/ page.og_title = <<>> /\ "h1" \in page.raises
                     THEN <<>> ELSE clean.title)
    /\ {"og_title", "site_name", "urlparse"} \cap page.raises = {}
          => data.company = clean.company

\* C24 as the spec states it
C24AsStated(data, page, clean) ==
    /\ data.notes # <<>> <=> C24OuterFails(page)
    /\ C24OuterFails(page) => \A f \in C24Extracted : data[f] = <<>>
    /\ ~C24OuterFails(page) => C24FieldByField(data, page, clean)

(* C24, as stated: a failure in the extraction of one field leaves that    *)
(* field empty, the fields behind it are extracted as without the failure  *)
(* and notes stays empty; notes is non-empty exactly when the stage        *)
(* outside the fields' tries failed, and then the record is returned with  *)
(* every extracted field at its default.                                   *)
C24_FailuresAsStated ==
    (op = "process_job_url" /\ pc = "done" /\ net.status = "ok") =>
        /\ exc = ""
        /\ C24AsStated(job_data, net.page,
                       Parse(detect_parser(url), [net.page EXCEPT !.raises = {}], url).val)

\* the record of the page: clean is the record of the page with no step
\* raising, blank the one of the page without the tags the steps that raise
\* were to find
C24Kept(parser, data, page, clean, blank) ==
    /\ data.notes # <<>> <=> C24OuterFails(page)
    /\ ~page.parsable => \A f \in C24Extracted : data[f] = <<>>
    /\ data.title = (IF page.parsable THEN blank.title ELSE <<>>)
    /\ data.company = (IF \/ ~page.parsable
                          \/ parser = "generic" /\ "urlparse" \in page.raises
                       THEN <<>> ELSE blank.company)
    /\ \A f \in C24BodyFields :
          data[f] = IF C24OuterFails(page) \/ f \in page.raises THEN <<>> ELSE clean[f]

(* C24, amended: a step that raises inside the try of a field leaves the   *)
(* fields of that try as they were (the LinkedIn title then falls back on  *)
(* the h1), the fields behind it are extracted as without the failure and  *)
(* notes stays empty; notes is non-empty exactly when the stage outside    *)
(* these tries failed, and then the record is returned, no exception, with *)
(* the fields extracted before the failure kept and the others at their    *)
(* defaults.                                                               *)
C24_FailuresLocal ==
    (op = "process_job_url" /\ pc = "done" /\ net.status = "ok") =>
        /\ exc = ""
        /\ C24Kept(detect_parser(url), job_data, net.page,
                   Parse(detect_parser(url), [net.page EXCEPT !.raises = {}], url).val,
                   Parse(detect_parser(url), C24Blanked(detect_parser(url), net.page), url).val)

\* get_text raises behind an extracted title, another step in a field's try
C24_Witness ==
    /\ op = "process_job_url" /\ pc = "done" /\ net.status = "ok"
    /\ net.page.raises = {"get_text", "salary"}
    /\ job_data.title # <<>> /\ job_data.notes # <<>> /\ job_data.location = <<>>
\* the company, the position and the location the extractor called returned
C25Fields ==
    IF op = "parse_linkedin_job"
    THEN [company |-> ret.company, position |-> ret.position, location |-> ret.location]
    ELSE [company |-> job_data.company, position |-> job_data.title,
          location |-> job_data.location]

\* what the decomposition of the title t has to yield
C25Decomposed(t, f) ==
    \A c \in TitleCompanies : \A p \in TitlePositions : \A l \in TitleLocations :
        /\ t = HiringIn(c, p, l) =>
              /\ f.company = c /\ f.location = l
              /\ p # <<>> => f.position = p
        /\ (p # <<>> /\ t = Hiring(c, p)) => (f.company = c /\ f.position = p)
        /\ (p # <<>> /\ t = Dashed(p, c, l, EnDash)) =>
              (f.position = p /\ f.company = c /\ f.location = l)

(* C25: the LinkedIn extractor drops a trailing " | LinkedIn" and splits a *)
(* title "<Company> hiring <Position> in <Location>" on " hiring " and     *)
(* then on " in " into company, position and location; the dash pattern    *)
(* "<Position> - <Company> - <Location>" is applied only when the first    *)
(* pattern left company or position unset, and overwrites no field the     *)
(* first pattern set.                                                      *)
C25_TitlePatterns ==
    (op \in {"process_job_url", "parse_linkedin_job"} /\ pc = "done") =>
        \A x \in TitleSuffixes : \A t \in {Strip(net.page.og_title)} :
            (Len(t) >= Len(x) /\ EndsWith(t, x)) =>
                C25Decomposed(SubSeq(t, 1, Len(t) - Len(x)), C25Fields)
\* the cell of the Link column in row i of the main sheet
C26Link(i) == IF Len(sheet[i]) > 4 THEN sheet[i][5] ELSE <<>>

(* C26: whatever add_job requests without the replace-last option have    *)
(* been served, one after the other or side by side, no two rows of jobs   *)
(* of the main sheet hold the same link.                                   *)
C26_NoDuplicateLinks ==
    op = "add_job" =>
        \A i \in 2..Len(sheet) : \A j \in 2..Len(sheet) : i < j => C26Link(i) # C26Link(j)

\* the request of worker w found no row of a job to replace and ends
C27NothingToReplace(w) ==
    /\ requests[w].kind = "replace_last" /\ requests[w].pc = "read"
    /\ Len(sheet) <= 1
    /\ requests'[w].pc = "done"

C27Step ==
    \A w \in Workers :
        C27NothingToReplace(w) =>
            \E i \in 2..Len(sheet') : sheet'[i] = JobRow(today, requests[w].job)

(* C27: when add_job is submitted with the replace-last option and the     *)
(* sheet holds no row of a job, the sheet holds a row of the submitted job *)
(* once the request is served.                                             *)
C27_AddedWhenNothingToReplace == [][op = "add_job" => C27Step]_vars

\* row i leaves the main sheet in this step
C28Removed(i) == Len(sheet') < Len(sheet) /\ sheet' = delete_rows(sheet, i)

C28Step ==
    \A i \in 2..Len(sheet) :
        C28Removed(i) =>
            \E k \in DOMAIN trash.rows : trash.rows[k] = PaddedRow(sheet, i)

(* C28: whenever replace_last_job or replace_job_by_link removes a row     *)
(* from the main sheet, the Trash sheet already holds a copy of that row.  *)
C28_TrashBeforeRemoval == [][op = "add_job" => C28Step]_vars
\* the body of a guarded handler ran in this step
C29BodyRan == op' \in GuardedHandlers /\ ret'.ran

\* a guarded handler answered this step's request, which came without
\* credentials
C29Unauthenticated == op' \in GuardedHandlers /\ "credentials" \notin DOMAIN session

\* the token refresh failed in this step
C29RefreshFailed ==
    op' \in GuardedHandlers /\ "credentials" \in DOMAIN session /\ ~ret'.ran

C29Step ==
    /\ C29BodyRan => "credentials" \in DOMAIN session /\ "credentials" \in DOMAIN session'
    /\ C29Unauthenticated =>
          /\ ~ret'.ran /\ ret'.to = "login"
          /\ "next_url" \in DOMAIN session' /\ session'["next_url"] = url'
    /\ (op' = "logout" \/ C29RefreshFailed) => session' = <<>>
    /\ ("credentials" \notin DOMAIN session /\ "credentials" \in DOMAIN session')
          => op' = "oauth2callback"

C30StateMatches ==
    /\ "state" \in DOMAIN session /\ session["state"] \in OAuthStates
    /\ text' = session["state"]

C30Step ==
    /\ (op' = "oauth2callback" /\ ~C30StateMatches) =>
          /\ net' = NoAnswer
          /\ Get(session', "credentials", <<>>) = Get(session, "credentials", <<>>)
    /\ (op' = "oauth2callback" /\ "credentials" \in DOMAIN session'
           /\ Get(session', "credentials", <<>>) # Get(session, "credentials", <<>>))
          => C30StateMatches /\ net'.status = "ok"
    /\ ("state" \in DOMAIN session' /\ Get(session, "state", <<>>) # session'["state"])
          => op' = "login"

(* C30: the OAuth callback stores credentials in the session only if the   *)
(* session holds a state, which only a login initiation writes, and the    *)
(* state argument of the callback equals it; when the state is missing or  *)
(* different, no token exchange is attempted and the credentials of the    *)
(* session stay as they were.                                              *)
C30_CallbackVerifiesState == [][C30Step]_vars

\* a callback with the state of the session has stored credentials
C30_Witness ==
    /\ op = "oauth2callback" /\ net.status = "ok"
    /\ "state" \in DOMAIN session /\ text = session["state"]
    /\ "credentials" \in DOMAIN session
=============================================================================
